---- MODULE Spec2Model ----
(***************************************************************************)
(* Verification model of the Astro-Shiba-Pop contracts:                    *)
(*   - contracts/amm-pair      : AMMPair (lib.rs, math.rs, storage.rs),    *)
(*                               ReentrancyGuard (reentrancy.rs),          *)
(*                               Oracle (oracle.rs)                        *)
(*   - contracts/sac-factory   : BondingCurve (bonding_curve.rs),          *)
(*                               SacFactory buy/sell (lib.rs)              *)
(* Each contract is driven by its own specification (SpecAmm, SpecCurve,   *)
(* SpecCurveRaw, SpecFactory, SpecGuard, SpecOracle); the variables of the *)
(* other contracts stay at their initial value.                            *)
(*                                                                         *)
(* Numbers.  TLC evaluates over 32-bit integers, so the i128 quantities    *)
(* of the contracts are modelled on a reduced scale: the fixed-point       *)
(* factors (PRECISION, CURVE_PRECISION) and the token supply are scaled    *)
(* down, keeping the ratios of the source (virtual reserve 1000 units,     *)
(* graduation at 10000 units, starting price 12).  The i128 range is       *)
(* modelled by I128_MIN..I128_MAX.                                         *)
(***************************************************************************)
EXTENDS Integers, Sequences, FiniteSets, TLC

VARIABLES
    pair,        \* AMMPair: PairInfo in instance storage (reserve_0, reserve_1, total_supply, k_last)
    balances,    \* AMMPair: DataKey::Balance(address) -> LP balance
    amm_last,    \* AMMPair: the last call and its result
    amm_ops,     \* AMMPair: number of calls made so far (bounds the run)
    amm_sender,  \* AMMPair: the sender of the last call ("" for a swap)
    deposited,   \* AMMPair: the call before the last, if it added liquidity
    curve,       \* BondingCurve: the struct (total_supply, tokens_sold, tokens_remaining, xlm_reserve, k)
    curve_last,  \* BondingCurve: the last call and its result
    curve_ops,   \* BondingCurve: number of calls made so far
    fstate,      \* SacFactory: ContractState in persistent storage
    roles,       \* SacFactory: the (address, role) pairs stored as AccessControlKey::Role
    tokens,      \* SacFactory: PersistentKey::TokenInfo(token) -> TokenInfo, for the launched tokens
    amm_wasm,    \* SacFactory: whether InstanceKey::AmmWasmHash is set
    now,         \* SacFactory: env.ledger().timestamp()
    fac_last,    \* SacFactory: the last call and its result
    fac_ops,     \* SacFactory: number of calls made so far
    xlm_held,    \* SacFactory: per token, the XLM its buyers have transferred to the
                 \* factory less the XLM the factory has transferred to its sellers
    lock,        \* reentrancy.rs: the value stored under LOCK_KEY (absent = FALSE)
    frames,      \* reentrancy.rs: the guarded bodies in progress, outermost first
    lock_v2,     \* storage_v2.rs: the value stored under DataKey::ReentrancyGuard
    holders_v2,  \* storage_v2.rs: callers between check_reentrancy and release_reentrancy
    guard_log,   \* the guard events so far
    oracle,      \* Oracle: last_observation, observations[0..7], index
    oracle_now,  \* Oracle: env.ledger().timestamp()
    oracle_last, \* Oracle: the last call made in the current ledger and its result
    observed,    \* Oracle: the observations update has stored, oldest first
    math_last,   \* math_v2.rs, validation.rs, sac-factory math.rs: the last call and its result
    curve_v2,    \* BondingCurveV2: the struct
    v2_last,     \* BondingCurveV2: the last call and its result
    v2_ops       \* BondingCurveV2: number of calls made so far

amm_vars == <<pair, balances, amm_last, amm_ops, amm_sender, deposited>>
curve_vars == <<curve, curve_last, curve_ops>>
fac_vars == <<fstate, roles, tokens, amm_wasm, now, fac_last, fac_ops, xlm_held>>

guard_vars == <<lock, frames, lock_v2, holders_v2, guard_log>>
oracle_vars == <<oracle, oracle_now, oracle_last, observed>>
math_vars == <<math_last>>
v2_vars == <<curve_v2, v2_last, v2_ops>>

vars == <<pair, balances, amm_last, amm_ops, amm_sender, deposited, curve, curve_last, curve_ops,
          fstate, roles, tokens, amm_wasm, now, fac_last, fac_ops, xlm_held,
          lock, frames, lock_v2, holders_v2, guard_log,
          oracle, oracle_now, oracle_last, observed, math_last,
          curve_v2, v2_last, v2_ops>>

-----------------------------------------------------------------------------
(* Integer helpers *)

Abs(a) == IF a < 0 THEN -a ELSE a

\* Rust's integer division truncates toward zero (b # 0).
TruncDiv(a, b) ==
    IF (a >= 0) = (b > 0) THEN Abs(a) \div Abs(b) ELSE -(Abs(a) \div Abs(b))

Min(a, b) == IF a < b THEN a ELSE b

-----------------------------------------------------------------------------
(* amm-pair/src/lib.rs, math.rs : program constants *)

MINIMUM_LIQUIDITY == 1000
FEE_BPS == 30
FEE_DENOMINATOR == 10000

(* Bounds of the AMM runs *)
MaxAmmOps == 4
MaxReserve == 4000
AmmLedgerTime == 5

Addresses == {"alice", "bob"}
Token0 == "token_0"
Token1 == "token_1"

-----------------------------------------------------------------------------
(* amm-pair/src/math.rs *)

RECURSIVE sqrt_loop(_, _, _)
sqrt_loop(y, z, x) ==
    IF x < z THEN sqrt_loop(y, x, (TruncDiv(y, x) + x) \div 2) ELSE z

\* math::sqrt: Babylonian method; every y < 4 other than 0 yields 1.
sqrt(y) ==
    IF y < 4 THEN (IF y = 0 THEN 0 ELSE 1)
    ELSE sqrt_loop(y, y, y \div 2 + 1)

\* math::quote: a panic is the result [ok |-> FALSE].
quote(amount_a, reserve_a, reserve_b) ==
    IF amount_a <= 0 THEN [ok |-> FALSE, err |-> "insufficient amount", val |-> 0]
    ELSE IF reserve_a <= 0 \/ reserve_b <= 0
         THEN [ok |-> FALSE, err |-> "insufficient liquidity", val |-> 0]
    ELSE [ok |-> TRUE, err |-> "", val |-> TruncDiv(amount_a * reserve_b, reserve_a)]

\* math::get_amount_out
get_amount_out(amount_in, reserve_in, reserve_out) ==
    IF amount_in <= 0 THEN [ok |-> FALSE, err |-> "insufficient input amount", val |-> 0]
    ELSE IF reserve_in <= 0 \/ reserve_out <= 0
         THEN [ok |-> FALSE, err |-> "insufficient liquidity", val |-> 0]
    ELSE LET fee_multiplier == FEE_DENOMINATOR - FEE_BPS
             amount_in_with_fee == amount_in * fee_multiplier
             numerator == amount_in_with_fee * reserve_out
             denominator == (reserve_in * FEE_DENOMINATOR) + amount_in_with_fee
         IN [ok |-> TRUE, err |-> "", val |-> TruncDiv(numerator, denominator)]

-----------------------------------------------------------------------------
(* amm-pair/src/storage.rs *)

\* An operation's result: a panic aborts the invocation and the host discards
\* every storage write of it, so a failed call returns the state it was given.
AmmFail(pi, bal, op, err) ==
    [ok |-> FALSE, err |-> err, op |-> op, pair |-> pi, balances |-> bal,
     a0 |-> 0, a1 |-> 0, liq |-> 0, out |-> 0]

increase_balance(bal, address, amount) ==
    [bal EXCEPT ![address] = bal[address] + amount]

\* decrease_balance panics when balance < amount (checked by the caller of this operator).
decrease_balance(bal, address, amount) ==
    [bal EXCEPT ![address] = bal[address] - amount]

SumBalances(bal) == bal["alice"] + bal["bob"]

\* token::Client::transfer (SEP-41 token, outside this repository): a negative
\* amount is rejected by the token contract.
transfer_ok(amount) == amount >= 0

-----------------------------------------------------------------------------
(* amm-pair/src/lib.rs : AMMPair *)

\* The (amount_0, amount_1) chosen by add_liquidity, lines 107-135.
optimal_amounts(pi, a0d, a1d, a0min, a1min) ==
    IF pi.total_supply = 0 THEN [ok |-> TRUE, err |-> "", a0 |-> a0d, a1 |-> a1d]
    ELSE LET q1 == quote(a0d, pi.reserve_0, pi.reserve_1) IN
         IF ~q1.ok THEN [ok |-> FALSE, err |-> q1.err, a0 |-> 0, a1 |-> 0]
         ELSE IF q1.val <= a1d
              THEN IF q1.val < a1min
                   THEN [ok |-> FALSE, err |-> "insufficient token1 amount", a0 |-> 0, a1 |-> 0]
                   ELSE [ok |-> TRUE, err |-> "", a0 |-> a0d, a1 |-> q1.val]
              ELSE LET q0 == quote(a1d, pi.reserve_1, pi.reserve_0) IN
                   IF ~q0.ok THEN [ok |-> FALSE, err |-> q0.err, a0 |-> 0, a1 |-> 0]
                   ELSE IF q0.val > a0d \/ q0.val < a0min
                        THEN [ok |-> FALSE, err |-> "insufficient token0 amount", a0 |-> 0, a1 |-> 0]
                        ELSE [ok |-> TRUE, err |-> "", a0 |-> q0.val, a1 |-> a1d]

\* The first-deposit variant of a faulty build: nothing is withheld.
first_liquidity_nolock(amount_0, amount_1) ==
    LET initial_liquidity == sqrt(amount_0 * amount_1) IN
    IF initial_liquidity <= MINIMUM_LIQUIDITY
    THEN [ok |-> FALSE, supply |-> 0, liq |-> 0]
    ELSE [ok |-> TRUE, supply |-> 0, liq |-> initial_liquidity]

\* Lines 138-150: the first deposit sets total_supply to MINIMUM_LIQUIDITY and
\* mints the rest of the root to the sender.
first_liquidity(amount_0, amount_1) ==
    LET initial_liquidity == sqrt(amount_0 * amount_1) IN
    IF initial_liquidity <= MINIMUM_LIQUIDITY
    THEN [ok |-> FALSE, supply |-> 0, liq |-> 0]
    ELSE [ok |-> TRUE, supply |-> MINIMUM_LIQUIDITY,
          liq |-> initial_liquidity - MINIMUM_LIQUIDITY]

\* A faulty build that leaves total_supply as it was when LP units are minted.
minted_supply_stale(total_supply, liquidity) == total_supply

\* Line 174: pair_info.total_supply += liquidity.
minted_supply(total_supply, liquidity) == total_supply + liquidity

add_liquidity(pi, bal, sender, a0d, a1d, a0min, a1min, timestamp, deadline) ==
    IF timestamp > deadline THEN AmmFail(pi, bal, "add_liquidity", "transaction expired")
    ELSE LET am == optimal_amounts(pi, a0d, a1d, a0min, a1min) IN
    IF ~am.ok THEN AmmFail(pi, bal, "add_liquidity", am.err)
    ELSE LET first == first_liquidity(am.a0, am.a1)
             isFirst == pi.total_supply = 0
             supply0 == IF isFirst THEN first.supply ELSE pi.total_supply
             liquidity ==
                 IF isFirst THEN first.liq
                 ELSE Min(TruncDiv(am.a0 * pi.total_supply, pi.reserve_0),
                          TruncDiv(am.a1 * pi.total_supply, pi.reserve_1))
         IN
    IF isFirst /\ ~first.ok
    THEN AmmFail(pi, bal, "add_liquidity", "insufficient liquidity minted")
    ELSE IF liquidity <= 0
    THEN AmmFail(pi, bal, "add_liquidity", "insufficient liquidity minted")
    ELSE IF ~transfer_ok(am.a0) \/ ~transfer_ok(am.a1)
    THEN AmmFail(pi, bal, "add_liquidity", "transfer failed")
    ELSE [ok |-> TRUE, err |-> "", op |-> "add_liquidity",
          pair |-> [pi EXCEPT !.reserve_0 = pi.reserve_0 + am.a0,
                              !.reserve_1 = pi.reserve_1 + am.a1,
                              !.total_supply = minted_supply(supply0, liquidity)],
          balances |-> increase_balance(bal, sender, liquidity),
          a0 |-> am.a0, a1 |-> am.a1, liq |-> liquidity, out |-> 0]

remove_liquidity(pi, bal, sender, liquidity, a0min, a1min, timestamp, deadline) ==
    IF timestamp > deadline THEN AmmFail(pi, bal, "remove_liquidity", "transaction expired")
    ELSE IF bal[sender] < liquidity
    THEN AmmFail(pi, bal, "remove_liquidity", "insufficient liquidity")
    ELSE IF pi.total_supply = 0
    THEN AmmFail(pi, bal, "remove_liquidity", "attempt to divide by zero")
    ELSE LET amount_0 == TruncDiv(liquidity * pi.reserve_0, pi.total_supply)
             amount_1 == TruncDiv(liquidity * pi.reserve_1, pi.total_supply)
         IN
    IF amount_0 < a0min THEN AmmFail(pi, bal, "remove_liquidity", "insufficient token0 amount")
    ELSE IF amount_1 < a1min THEN AmmFail(pi, bal, "remove_liquidity", "insufficient token1 amount")
    ELSE IF ~transfer_ok(amount_0) \/ ~transfer_ok(amount_1)
    THEN AmmFail(pi, bal, "remove_liquidity", "transfer failed")
    ELSE [ok |-> TRUE, err |-> "", op |-> "remove_liquidity",
          pair |-> [pi EXCEPT !.reserve_0 = pi.reserve_0 - amount_0,
                              !.reserve_1 = pi.reserve_1 - amount_1,
                              !.total_supply = pi.total_supply - liquidity],
          balances |-> decrease_balance(bal, sender, liquidity),
          a0 |-> amount_0, a1 |-> amount_1, liq |-> liquidity, out |-> 0]

\* The reserves a swap would store, and its output, before the K check.
swap_reserves(pi, amount_in, amount_out, token_in) ==
    IF token_in = Token0
    THEN [pi EXCEPT !.reserve_0 = pi.reserve_0 + amount_in,
                    !.reserve_1 = pi.reserve_1 - amount_out]
    ELSE [pi EXCEPT !.reserve_1 = pi.reserve_1 + amount_in,
                    !.reserve_0 = pi.reserve_0 - amount_out]

\* A faulty swap: the output is priced with quote (no fee, no curve) and the
\* K verification of lines 327-333 is missing.
swap_quote_unchecked(pi, bal, amount_in, amount_out_min, token_in, timestamp, deadline) ==
    IF timestamp > deadline THEN AmmFail(pi, bal, "swap", "transaction expired")
    ELSE IF amount_in <= 0 THEN AmmFail(pi, bal, "swap", "insufficient input amount")
    ELSE IF token_in \notin {Token0, Token1} THEN AmmFail(pi, bal, "swap", "invalid token")
    ELSE LET reserve_in == IF token_in = Token0 THEN pi.reserve_0 ELSE pi.reserve_1
             reserve_out == IF token_in = Token0 THEN pi.reserve_1 ELSE pi.reserve_0
             out == quote(amount_in, reserve_in, reserve_out)
         IN
    IF ~out.ok THEN AmmFail(pi, bal, "swap", out.err)
    ELSE IF out.val < amount_out_min THEN AmmFail(pi, bal, "swap", "insufficient output amount")
    ELSE IF ~transfer_ok(amount_in) \/ ~transfer_ok(out.val)
    THEN AmmFail(pi, bal, "swap", "transfer failed")
    ELSE [ok |-> TRUE, err |-> "", op |-> "swap",
          pair |-> swap_reserves(pi, amount_in, out.val, token_in), balances |-> bal,
          a0 |-> 0, a1 |-> 0, liq |-> 0, out |-> out.val]

swap(pi, bal, amount_in, amount_out_min, token_in, timestamp, deadline) ==
    IF timestamp > deadline THEN AmmFail(pi, bal, "swap", "transaction expired")
    ELSE IF amount_in <= 0 THEN AmmFail(pi, bal, "swap", "insufficient input amount")
    ELSE IF token_in \notin {Token0, Token1} THEN AmmFail(pi, bal, "swap", "invalid token")
    ELSE LET reserve_in == IF token_in = Token0 THEN pi.reserve_0 ELSE pi.reserve_1
             reserve_out == IF token_in = Token0 THEN pi.reserve_1 ELSE pi.reserve_0
             k_old == reserve_in * reserve_out
             out == get_amount_out(amount_in, reserve_in, reserve_out)
             updated == swap_reserves(pi, amount_in, out.val, token_in)
             k_new == updated.reserve_0 * updated.reserve_1
         IN
    IF ~out.ok THEN AmmFail(pi, bal, "swap", out.err)
    ELSE IF out.val < amount_out_min THEN AmmFail(pi, bal, "swap", "insufficient output amount")
    ELSE IF ~transfer_ok(amount_in) \/ ~transfer_ok(out.val)
    THEN AmmFail(pi, bal, "swap", "transfer failed")
    ELSE IF k_new <= k_old
    THEN AmmFail(pi, bal, "swap", "K invariant violated - new K must be > old K due to fees")
    ELSE [ok |-> TRUE, err |-> "", op |-> "swap",
          pair |-> updated, balances |-> bal,
          a0 |-> 0, a1 |-> 0, liq |-> 0, out |-> out.val]

-----------------------------------------------------------------------------
(* AMMPair: state machine *)

\* No deposit was made by the call before the last.
NoDeposit == [sender |-> "", liq |-> 0, a0 |-> 0, a1 |-> 0]

\* AMMPair::initialize, lines 62-73: empty reserves, no LP supply.
AmmInit ==
    /\ pair = [reserve_0 |-> 0, reserve_1 |-> 0, total_supply |-> 0, k_last |-> 0]
    /\ balances = [a \in Addresses |-> 0]
    /\ amm_last = AmmFail(pair, balances, "initialize", "")
    /\ amm_ops = 0
    /\ amm_sender = ""
    /\ deposited = NoDeposit

\* Inputs of the calls: <<amounts..., minimums..., deadline>>.
DesiredAmounts == {1, 1200, 2000}
SwapAmounts == {0, 1, 10, 50}
AddArgs ==
    {<<a0d, a1d, 0, 0, AmmLedgerTime>> : a0d \in DesiredAmounts, a1d \in DesiredAmounts}
    \cup {<<2000, 2000, 1500, 1500, AmmLedgerTime>>, <<1200, 2000, 1500, 0, AmmLedgerTime>>,
          <<2000, 1200, 0, 1500, AmmLedgerTime>>, <<2000, 2000, 0, 0, AmmLedgerTime - 1>>}
\* The LP units the last call minted, when it was a successful add_liquidity.
JustMinted == IF amm_last.op = "add_liquidity" /\ amm_last.ok THEN {amm_last.liq} ELSE {}
RemoveArgs(held) ==
    {<<l, 0, 0, AmmLedgerTime>> : l \in {-1, 0, 1, 100, held, held + 1} \cup JustMinted}
    \cup {<<held, 1500, 0, AmmLedgerTime>>, <<held, 0, 1500, AmmLedgerTime>>,
          <<held, 0, 0, AmmLedgerTime - 1>>}
SwapArgs ==
    {<<a, 0, t, AmmLedgerTime>> : a \in SwapAmounts, t \in {Token0, Token1, "other"}}
    \cup {<<50, 20, Token0, AmmLedgerTime>>, <<50, 20, Token1, AmmLedgerTime>>,
          <<50, 0, Token0, AmmLedgerTime - 1>>}

AmmApply(r, sender) ==
    /\ r.pair.reserve_0 <= MaxReserve
    /\ r.pair.reserve_1 <= MaxReserve
    /\ pair' = r.pair
    /\ balances' = r.balances
    /\ amm_last' = r
    /\ amm_ops' = amm_ops + 1
    /\ amm_sender' = sender
    /\ deposited' = IF amm_last.op = "add_liquidity" /\ amm_last.ok
                    THEN [sender |-> amm_sender, liq |-> amm_last.liq,
                          a0 |-> amm_last.a0, a1 |-> amm_last.a1]
                    ELSE NoDeposit

AddLiquidity ==
    /\ amm_ops < MaxAmmOps
    /\ \E sender \in Addresses, x \in AddArgs :
          AmmApply(add_liquidity(pair, balances, sender, x[1], x[2], x[3], x[4],
                                 AmmLedgerTime, x[5]), sender)

RemoveLiquidity ==
    /\ amm_ops < MaxAmmOps
    /\ \E sender \in Addresses : \E x \in RemoveArgs(balances[sender]) :
          AmmApply(remove_liquidity(pair, balances, sender, x[1], x[2], x[3],
                                    AmmLedgerTime, x[4]), sender)

Swap ==
    /\ amm_ops < MaxAmmOps
    /\ \E x \in SwapArgs :
          AmmApply(swap(pair, balances, x[1], x[2], x[3], AmmLedgerTime, x[4]), "")

AmmNext == (AddLiquidity \/ RemoveLiquidity \/ Swap) /\ UNCHANGED <<curve_vars, fac_vars, guard_vars, oracle_vars, math_vars, v2_vars>>

-----------------------------------------------------------------------------
(* AMMPair: properties *)

K(pi) == pi.reserve_0 * pi.reserve_1

C2_Locked ==
    /\ \A a \in Addresses : balances[a] >= 0
    /\ pair.total_supply # 0 =>
          /\ pair.total_supply - SumBalances(balances) = MINIMUM_LIQUIDITY
          /\ pair.total_supply >= MINIMUM_LIQUIDITY
    /\ (amm_last.op = "add_liquidity" /\ amm_last.ok) => pair.total_supply > MINIMUM_LIQUIDITY

\* C2 (first deposit): the first successful add_liquidity has a root r =
\* floor(sqrt(amount_0 * amount_1)) above MINIMUM_LIQUIDITY, mints r -
\* MINIMUM_LIQUIDITY to the sender and sets total_supply to r.
C2_FirstMint ==
    [][pair.total_supply = 0 /\ amm_last'.op = "add_liquidity" /\ amm_last'.ok
         /\ amm_ops' = amm_ops + 1 =>
         LET r == amm_last'.liq + MINIMUM_LIQUIDITY
             y == amm_last'.a0 * amm_last'.a1 IN
         /\ r * r <= y /\ y < (r + 1) * (r + 1)
         /\ amm_last'.liq > 0
         /\ SumBalances(balances') = amm_last'.liq
         /\ pair'.total_supply = r]_vars

-----------------------------------------------------------------------------
(* Checked i128 arithmetic (checked_add / checked_sub / checked_mul /      *)
(* checked_div of the Rust core library), over the modelled range.         *)

I128_MAX == 1073741823
I128_MIN == -I128_MAX - 1

None == [ok |-> FALSE, val |-> 0]
Some(v) == [ok |-> TRUE, val |-> v]

InRange(v) == I128_MIN <= v /\ v <= I128_MAX

checked_add(a, b) == IF InRange(a + b) THEN Some(a + b) ELSE None

checked_sub(a, b) == IF InRange(a - b) THEN Some(a - b) ELSE None

\* The product is formed only when it is known to fit; I128_MIN itself is
\* reached only by factors of opposite sign whose magnitudes multiply to I128_MAX + 1.
checked_mul(a, b) ==
    IF a = 0 \/ b = 0 THEN Some(0)
    ELSE IF a = I128_MIN \/ b = I128_MIN
         THEN (IF a = 1 THEN Some(b) ELSE IF b = 1 THEN Some(a) ELSE None)
    ELSE IF Abs(a) <= I128_MAX \div Abs(b) THEN Some(a * b)
    ELSE IF (a > 0) # (b > 0) /\ (I128_MAX + 1) % Abs(b) = 0
            /\ Abs(a) = (I128_MAX + 1) \div Abs(b)
         THEN Some(I128_MIN)
    ELSE None

checked_div(a, b) ==
    IF b = 0 THEN None
    ELSE IF a = I128_MIN /\ b = -1 THEN None
    ELSE Some(TruncDiv(a, b))

-----------------------------------------------------------------------------
(* sac-factory/src/bonding_curve.rs : BondingCurve *)

\* PRECISION (10^7 in the source), on the scale of the model.
CURVE_PRECISION == 10
\* `1000 * PRECISION`: the virtual XLM reserve of a new curve.
INITIAL_XLM == 1000 * CURVE_PRECISION

CurveErr(e) == [ok |-> FALSE, err |-> e, val |-> 0]
CurveOk(v) == [ok |-> TRUE, err |-> "", val |-> v]

\* BondingCurve::new; [ok |-> FALSE] is Err(err).
new_curve(total_supply) ==
    IF total_supply <= 0 THEN [ok |-> FALSE, err |-> "InvalidAmount"]
    ELSE LET k == checked_mul(INITIAL_XLM, total_supply) IN
         IF ~k.ok THEN [ok |-> FALSE, err |-> "Overflow"]
         ELSE [ok |-> TRUE, err |-> "",
               curve |-> [total_supply |-> total_supply, tokens_sold |-> 0,
                          tokens_remaining |-> total_supply,
                          xlm_reserve |-> INITIAL_XLM, k |-> k.val]]

\* calculate_buy pricing the whole purchase at the spot price.
calculate_buy_spot(c, xlm_in) ==
    IF xlm_in <= 0 THEN CurveErr("InvalidAmount")
    ELSE LET value == checked_mul(xlm_in, c.tokens_remaining) IN
    IF ~value.ok THEN CurveErr("Overflow")
    ELSE LET tokens_out == checked_div(value.val, c.xlm_reserve) IN
    IF ~tokens_out.ok THEN CurveErr("DivisionByZero")
    ELSE IF tokens_out.val <= 0 \/ tokens_out.val > c.tokens_remaining
         THEN CurveErr("InsufficientLiquidity")
    ELSE CurveOk(tokens_out.val)

calculate_buy(c, xlm_in) ==
    IF xlm_in <= 0 THEN CurveErr("InvalidAmount")
    ELSE LET new_xlm_reserve == checked_add(c.xlm_reserve, xlm_in) IN
    IF ~new_xlm_reserve.ok THEN CurveErr("Overflow")
    ELSE LET new_token_reserve == checked_div(c.k, new_xlm_reserve.val) IN
    IF ~new_token_reserve.ok THEN CurveErr("DivisionByZero")
    ELSE LET tokens_out == checked_sub(c.tokens_remaining, new_token_reserve.val) IN
    IF ~tokens_out.ok THEN CurveErr("Underflow")
    ELSE IF tokens_out.val <= 0 THEN CurveErr("InsufficientLiquidity")
    ELSE CurveOk(tokens_out.val)

\* calculate_sell without the test of tokens_in against tokens_sold.
calculate_sell_unbounded(c, tokens_in) ==
    IF tokens_in <= 0 THEN CurveErr("InvalidAmount")
    ELSE LET new_token_reserve == checked_add(c.tokens_remaining, tokens_in) IN
    IF ~new_token_reserve.ok THEN CurveErr("Overflow")
    ELSE LET new_xlm_reserve == checked_div(c.k, new_token_reserve.val) IN
    IF ~new_xlm_reserve.ok THEN CurveErr("DivisionByZero")
    ELSE LET xlm_out == checked_sub(c.xlm_reserve, new_xlm_reserve.val) IN
    IF ~xlm_out.ok THEN CurveErr("Underflow")
    ELSE IF xlm_out.val <= 0 THEN CurveErr("InsufficientLiquidity")
    ELSE CurveOk(xlm_out.val)

\* calculate_sell paying the tokens at the spot price.
calculate_sell_spot(c, tokens_in) ==
    IF tokens_in <= 0 THEN CurveErr("InvalidAmount")
    ELSE IF tokens_in > c.tokens_sold THEN CurveErr("InsufficientBalance")
    ELSE LET value == checked_mul(tokens_in, c.xlm_reserve) IN
    IF ~value.ok THEN CurveErr("Overflow")
    ELSE LET xlm_out == checked_div(value.val, c.tokens_remaining) IN
    IF ~xlm_out.ok THEN CurveErr("DivisionByZero")
    ELSE IF xlm_out.val <= 0 THEN CurveErr("InsufficientLiquidity")
    ELSE CurveOk(xlm_out.val)

calculate_sell(c, tokens_in) ==
    IF tokens_in <= 0 THEN CurveErr("InvalidAmount")
    ELSE IF tokens_in > c.tokens_sold THEN CurveErr("InsufficientBalance")
    ELSE LET new_token_reserve == checked_add(c.tokens_remaining, tokens_in) IN
    IF ~new_token_reserve.ok THEN CurveErr("Overflow")
    ELSE LET new_xlm_reserve == checked_div(c.k, new_token_reserve.val) IN
    IF ~new_xlm_reserve.ok THEN CurveErr("DivisionByZero")
    ELSE LET xlm_out == checked_sub(c.xlm_reserve, new_xlm_reserve.val) IN
    IF ~xlm_out.ok THEN CurveErr("Underflow")
    ELSE IF xlm_out.val <= 0 THEN CurveErr("InsufficientLiquidity")
    ELSE CurveOk(xlm_out.val)

\* execute_buy assigns the fields of `self` one after the other; `?` returns at
\* the first failing step, with the fields assigned so far already changed.
\* The result carries the struct as the call leaves it.
execute_buy(c, xlm_in, tokens_out) ==
    LET r1 == checked_add(c.xlm_reserve, xlm_in) IN
    IF ~r1.ok THEN [ok |-> FALSE, err |-> "Overflow", curve |-> c]
    ELSE LET c1 == [c EXCEPT !.xlm_reserve = r1.val]
             r2 == checked_sub(c1.tokens_remaining, tokens_out) IN
    IF ~r2.ok THEN [ok |-> FALSE, err |-> "Underflow", curve |-> c1]
    ELSE LET c2 == [c1 EXCEPT !.tokens_remaining = r2.val]
             r3 == checked_add(c2.tokens_sold, tokens_out) IN
    IF ~r3.ok THEN [ok |-> FALSE, err |-> "Overflow", curve |-> c2]
    ELSE [ok |-> TRUE, err |-> "", curve |-> [c2 EXCEPT !.tokens_sold = r3.val]]

execute_sell(c, xlm_out, tokens_in) ==
    LET r1 == checked_sub(c.xlm_reserve, xlm_out) IN
    IF ~r1.ok THEN [ok |-> FALSE, err |-> "Underflow", curve |-> c]
    ELSE LET c1 == [c EXCEPT !.xlm_reserve = r1.val]
             r2 == checked_add(c1.tokens_remaining, tokens_in) IN
    IF ~r2.ok THEN [ok |-> FALSE, err |-> "Overflow", curve |-> c1]
    ELSE LET c2 == [c1 EXCEPT !.tokens_remaining = r2.val]
             r3 == checked_sub(c2.tokens_sold, tokens_in) IN
    IF ~r3.ok THEN [ok |-> FALSE, err |-> "Underflow", curve |-> c2]
    ELSE [ok |-> TRUE, err |-> "", curve |-> [c2 EXCEPT !.tokens_sold = r3.val]]

-----------------------------------------------------------------------------
(* BondingCurve: state machine of one curve *)

MaxCurveOps == 5
CurveSupplies == {7, 1000, 8000}
BuyAmounts == {0, 1, 30, 2500, 40000}
SellAmounts(sold) == {0, 1, 25, sold \div 2, sold, sold + 1}
RawAmounts == {I128_MIN, -1, 0, 1, 2500, I128_MAX}

InitialSupply == 1000

CurveInit ==
    /\ curve = new_curve(InitialSupply).curve
    /\ curve_last = [op |-> "new", ok |-> TRUE, err |-> "", x |-> 0, t |-> 0]
    /\ curve_ops = 0

\* BondingCurve::new: a fresh curve for another token takes the place of the value.
CurveNew ==
    /\ curve_ops < MaxCurveOps
    /\ \E s \in CurveSupplies :
          /\ curve' = new_curve(s).curve
          /\ curve_last' = [op |-> "new", ok |-> TRUE, err |-> "", x |-> 0, t |-> s]
    /\ curve_ops' = curve_ops + 1

\* A buy as the callers make it: calculate_buy, then execute_buy with its result.
CurveBuy ==
    /\ curve_ops < MaxCurveOps
    /\ \E xlm_in \in BuyAmounts :
          LET calc == calculate_buy(curve, xlm_in)
              exec == execute_buy(curve, xlm_in, calc.val) IN
          /\ curve' = IF calc.ok THEN exec.curve ELSE curve
          /\ curve_last' = [op |-> "buy", ok |-> calc.ok /\ exec.ok,
                            err |-> IF calc.ok THEN exec.err ELSE calc.err,
                            x |-> xlm_in, t |-> calc.val]
    /\ curve_ops' = curve_ops + 1

\* The tokens the last call bought, if it was a successful buy.
JustBought == IF curve_last.op = "buy" /\ curve_last.ok THEN {curve_last.t} ELSE {}

\* A sell as the callers make it: calculate_sell, then execute_sell with its result.
CurveSell ==
    /\ curve_ops < MaxCurveOps
    /\ \E tokens_in \in SellAmounts(curve.tokens_sold) \cup JustBought :
          LET calc == calculate_sell(curve, tokens_in)
              exec == execute_sell(curve, calc.val, tokens_in) IN
          /\ curve' = IF calc.ok THEN exec.curve ELSE curve
          /\ curve_last' = [op |-> "sell", ok |-> calc.ok /\ exec.ok,
                            err |-> IF calc.ok THEN exec.err ELSE calc.err,
                            x |-> calc.val, t |-> tokens_in]
    /\ curve_ops' = curve_ops + 1

\* execute_buy called directly, with arguments of the caller's choosing.
RawExecuteBuy ==
    /\ curve_ops < MaxCurveOps
    /\ \E xlm_in \in RawAmounts, tokens_out \in RawAmounts :
          LET exec == execute_buy(curve, xlm_in, tokens_out) IN
          /\ curve' = exec.curve
          /\ curve_last' = [op |-> "execute_buy", ok |-> exec.ok, err |-> exec.err,
                            x |-> xlm_in, t |-> tokens_out]
    /\ curve_ops' = curve_ops + 1

\* execute_sell called directly, with arguments of the caller's choosing.
RawExecuteSell ==
    /\ curve_ops < MaxCurveOps
    /\ \E xlm_out \in RawAmounts, tokens_in \in RawAmounts :
          LET exec == execute_sell(curve, xlm_out, tokens_in) IN
          /\ curve' = exec.curve
          /\ curve_last' = [op |-> "execute_sell", ok |-> exec.ok, err |-> exec.err,
                            x |-> xlm_out, t |-> tokens_in]
    /\ curve_ops' = curve_ops + 1

CurveNext == (CurveNew \/ CurveBuy \/ CurveSell) /\ UNCHANGED <<amm_vars, fac_vars, guard_vars, oracle_vars, math_vars, v2_vars>>

MaxRawOps == 3

CurveRawNext ==
    (CurveNew \/ CurveBuy \/ CurveSell \/ RawExecuteBuy \/ RawExecuteSell)
        /\ curve_ops < MaxRawOps
        /\ UNCHANGED <<amm_vars, fac_vars, guard_vars, oracle_vars, math_vars, v2_vars>>

-----------------------------------------------------------------------------
(* sac-factory/src/math.rs, fee_management.rs, state_management.rs,       *)
(* access_control.rs                                                      *)

Res(r, e) == [ok |-> r.ok, err |-> IF r.ok THEN "" ELSE e, val |-> r.val]

safe_add(a, b) == Res(checked_add(a, b), "Overflow")
safe_sub(a, b) == Res(checked_sub(a, b), "Underflow")
safe_mul(a, b) == Res(checked_mul(a, b), "Overflow")
safe_div(a, b) ==
    IF b = 0 THEN CurveErr("DivisionByZero") ELSE Res(checked_div(a, b), "Overflow")

\* mul_div dividing before it multiplies.
mul_div_predivide(a, b, c) ==
    LET quotient == safe_div(a, c) IN
    IF ~quotient.ok THEN quotient ELSE safe_mul(quotient.val, b)

mul_div(a, b, c) ==
    LET numerator == safe_mul(a, b) IN
    IF ~numerator.ok THEN numerator ELSE safe_div(numerator.val, c)

apply_bps(amount, bps) == mul_div(amount, bps, 10000)

calculate_slippage_bps(price_before, price_after) ==
    LET diff == safe_sub(price_after, price_before) IN
    IF ~diff.ok THEN diff ELSE mul_div(diff.val, 10000, price_before)

\* FeeConfig.trading_fee_bps as SacFactory::initialize stores it (lib.rs line 93).
TRADING_FEE_BPS == 100

\* apply_trading_fee: [ok, err, net, fee]
apply_trading_fee(gross_amount) ==
    IF TRADING_FEE_BPS = 0 THEN [ok |-> TRUE, err |-> "", net |-> gross_amount, fee |-> 0]
    ELSE LET fee == apply_bps(gross_amount, TRADING_FEE_BPS) IN
    IF ~fee.ok THEN [ok |-> FALSE, err |-> fee.err, net |-> 0, fee |-> 0]
    ELSE LET net == safe_sub(gross_amount, fee.val) IN
    IF ~net.ok THEN [ok |-> FALSE, err |-> net.err, net |-> 0, fee |-> 0]
    ELSE [ok |-> TRUE, err |-> "", net |-> net.val, fee |-> fee.val]

\* BondingCurve::get_current_price
get_current_price(c) ==
    IF c.tokens_remaining = 0 THEN I128_MAX
    ELSE LET m == checked_mul(c.xlm_reserve, CURVE_PRECISION)
             d == checked_div(IF m.ok THEN m.val ELSE I128_MAX, c.tokens_remaining)
         IN IF d.ok THEN d.val ELSE I128_MAX

has_role(rs, account, role) == <<account, role>> \in rs

\* require_active letting every state through.
require_active_always(st) == TRUE

require_active(st) == st = "Active"

\* state_management::pause: [ok, err, state]
pause(st, rs, admin) ==
    IF ~(has_role(rs, admin, "PauseAdmin") \/ has_role(rs, admin, "EmergencyPauser")
         \/ has_role(rs, admin, "Owner"))
    THEN [ok |-> FALSE, err |-> "Unauthorized", state |-> st]
    ELSE IF st = "Paused" THEN [ok |-> FALSE, err |-> "ContractPaused", state |-> st]
    ELSE [ok |-> TRUE, err |-> "", state |-> "Paused"]

\* state_management::unpause
unpause(st, rs, admin) ==
    IF ~(has_role(rs, admin, "PauseAdmin") \/ has_role(rs, admin, "Owner"))
    THEN [ok |-> FALSE, err |-> "Unauthorized", state |-> st]
    ELSE IF st # "Paused" THEN [ok |-> FALSE, err |-> "ContractNotPaused", state |-> st]
    ELSE [ok |-> TRUE, err |-> "", state |-> "Active"]

\* access_control::require_role
require_role(rs, account, role) == has_role(rs, account, role)

\* The result of an access-control call: [ok, err, roles]
RoleErr(rs, e) == [ok |-> FALSE, err |-> e, roles |-> rs]
RoleOk(rs) == [ok |-> TRUE, err |-> "", roles |-> rs]

\* access_control::grant_role
grant_role(rs, granter, account, role) ==
    IF ~require_role(rs, granter, "Owner") THEN RoleErr(rs, "Unauthorized")
    ELSE RoleOk(rs \cup {<<account, role>>})

\* revoke_role without the test of lines 72-74.
revoke_role_unguarded(rs, revoker, account, role) ==
    IF ~require_role(rs, revoker, "Owner") THEN RoleErr(rs, "Unauthorized")
    ELSE RoleOk(rs \ {<<account, role>>})

\* access_control::revoke_role
revoke_role(rs, revoker, account, role) ==
    IF ~require_role(rs, revoker, "Owner") THEN RoleErr(rs, "Unauthorized")
    ELSE IF role = "Owner" /\ account = revoker THEN RoleErr(rs, "CannotRevokeOwnOwnership")
    ELSE RoleOk(rs \ {<<account, role>>})

\* access_control::transfer_ownership: the old key is removed, then the new one set.
transfer_ownership(rs, current_owner, new_owner) ==
    IF ~require_role(rs, current_owner, "Owner") THEN RoleErr(rs, "Unauthorized")
    ELSE RoleOk((rs \ {<<current_owner, "Owner">>}) \cup {<<new_owner, "Owner">>})

-----------------------------------------------------------------------------
(* sac-factory/src/lib.rs : SacFactory *)

\* Program constants on the scale of the model: GRADUATION_THRESHOLD is
\* 10,000 XLM and BONDING_CURVE_SUPPLY 800M tokens in the source; the model
\* counts 800 tokens, each of CURVE_PRECISION units.
GRADUATION_THRESHOLD == 10000 * CURVE_PRECISION
BONDING_CURVE_SUPPLY == 800 * CURVE_PRECISION

Tokens == {"tokA", "tokB"}
Accounts == {"admin", "user"}

\* A failed call: Err(e) (or a trap of the host) stores nothing.
FacFail(toks, op, token, e) ==
    [ok |-> FALSE, err |-> e, op |-> op, token |-> token, tokens |-> toks, val |-> 0]

FacOk(toks, op, token, v) ==
    [ok |-> TRUE, err |-> "", op |-> op, token |-> token, tokens |-> toks, val |-> v]

set_token_info(toks, token, info) ==
    [t \in DOMAIN toks \cup {token} |-> IF t = token THEN info ELSE toks[t]]

\* A status check that lets every token through.
is_bonding_unchecked(info) == TRUE

\* The status check of buy (lines 239-241) and sell (lines 369-371).
is_bonding(info) == info.status = "Bonding"

\* amm_deployment::deploy_amm_pair: fails with AmmWasmNotSet without a stored hash.
deploy_amm_pair(wasm) ==
    IF ~wasm THEN [ok |-> FALSE, err |-> "AmmWasmNotSet"] ELSE [ok |-> TRUE, err |-> ""]

\* Line 633: the XLM graduate_to_amm transfers from the factory to the pair.
xlm_liquidity(info) == info.bonding_curve.xlm_reserve

\* graduate_to_amm without the assignment of line 666.
graduate_to_amm_unmarked(wasm, info) ==
    LET dep == deploy_amm_pair(wasm)
        token_liquidity == info.bonding_curve.tokens_remaining
    IN
    IF ~dep.ok THEN [ok |-> FALSE, err |-> dep.err, info |-> info]
    ELSE IF xlm_liquidity(info) <= 0 \/ token_liquidity <= 0
    THEN [ok |-> FALSE, err |-> "InsufficientLiquidityForGraduation", info |-> info]
    ELSE [ok |-> TRUE, err |-> "", info |-> info]

\* SacFactory::graduate_to_amm: [ok, err, info].  The transfers of lines 646-651
\* go to the token contracts, which are outside this repository; the factory's
\* account there is taken to be funded.
graduate_to_amm(wasm, info) ==
    LET dep == deploy_amm_pair(wasm)
        token_liquidity == info.bonding_curve.tokens_remaining
    IN
    IF ~dep.ok THEN [ok |-> FALSE, err |-> dep.err, info |-> info]
    ELSE IF xlm_liquidity(info) <= 0 \/ token_liquidity <= 0
    THEN [ok |-> FALSE, err |-> "InsufficientLiquidityForGraduation", info |-> info]
    ELSE [ok |-> TRUE, err |-> "", info |-> [info EXCEPT !.status = "Graduated"]]

\* SacFactory::launch_token.  name_len and symbol_len are name.len() and
\* symbol.len(); the token address is the one the asset deploys to, and
\* deploying an asset whose contract exists already traps in the host.
launch_token(st, toks, token, name_len, symbol_len) ==
    IF ~require_active(st) THEN FacFail(toks, "launch_token", token, "ContractPaused")
    ELSE IF name_len = 0 \/ name_len > 32 THEN FacFail(toks, "launch_token", token, "InvalidName")
    ELSE IF symbol_len = 0 \/ symbol_len > 12
    THEN FacFail(toks, "launch_token", token, "InvalidSymbol")
    ELSE IF token \in DOMAIN toks THEN FacFail(toks, "launch_token", token, "host: contract exists")
    ELSE LET bc == new_curve(BONDING_CURVE_SUPPLY) IN
    IF ~bc.ok THEN FacFail(toks, "launch_token", token, bc.err)
    ELSE FacOk(set_token_info(toks, token,
                   [status |-> "Bonding", bonding_curve |-> bc.curve,
                    xlm_raised |-> 0, market_cap |-> 0]),
               "launch_token", token, 0)

\* SacFactory::buy, after the checks of steps 1-5 (lines 257-319).
buy_trade(toks, wasm, token, xlm_amount, min_tokens) ==
    LET info == toks[token]
        price_before == get_current_price(info.bonding_curve)
        tokens_gross == calculate_buy(info.bonding_curve, xlm_amount)
    IN
    IF ~tokens_gross.ok THEN FacFail(toks, "buy", token, tokens_gross.err)
    ELSE LET fee == apply_trading_fee(tokens_gross.val) IN
    IF ~fee.ok THEN FacFail(toks, "buy", token, fee.err)
    ELSE IF fee.net < min_tokens THEN FacFail(toks, "buy", token, "SlippageExceeded")
    ELSE LET exec == execute_buy(info.bonding_curve, xlm_amount, tokens_gross.val) IN
    IF ~exec.ok THEN FacFail(toks, "buy", token, exec.err)
    ELSE LET price_after == get_current_price(exec.curve)
             slippage_bps == calculate_slippage_bps(price_before, price_after) IN
    IF ~slippage_bps.ok THEN FacFail(toks, "buy", token, slippage_bps.err)
    ELSE LET raised == safe_add(info.xlm_raised, xlm_amount) IN
    IF ~raised.ok THEN FacFail(toks, "buy", token, raised.err)
    ELSE LET cap == safe_mul(raised.val, 2) IN
    IF ~cap.ok THEN FacFail(toks, "buy", token, cap.err)
    ELSE LET info1 == [info EXCEPT !.bonding_curve = exec.curve,
                                   !.xlm_raised = raised.val, !.market_cap = cap.val]
             grad == IF info1.xlm_raised >= GRADUATION_THRESHOLD
                     THEN graduate_to_amm(wasm, info1)
                     ELSE [ok |-> TRUE, err |-> "", info |-> info1]
         IN
    IF ~grad.ok THEN FacFail(toks, "buy", token, grad.err)
    ELSE FacOk(set_token_info(toks, token, grad.info), "buy", token, fee.net)

\* buy with the test of the contract state (step 3) made first.
buy_active_first(st, toks, wasm, token, xlm_amount, min_tokens, timestamp, deadline) ==
    IF ~require_active(st) THEN FacFail(toks, "buy", token, "ContractPaused")
    ELSE IF xlm_amount <= 0 THEN FacFail(toks, "buy", token, "InvalidAmount")
    ELSE IF min_tokens < 0 THEN FacFail(toks, "buy", token, "InvalidAmount")
    ELSE IF timestamp > deadline THEN FacFail(toks, "buy", token, "TransactionExpired")
    ELSE IF token \notin DOMAIN toks THEN FacFail(toks, "buy", token, "TokenNotFound")
    ELSE IF ~is_bonding(toks[token]) THEN FacFail(toks, "buy", token, "AlreadyGraduated")
    ELSE buy_trade(toks, wasm, token, xlm_amount, min_tokens)

\* SacFactory::buy
buy(st, toks, wasm, token, xlm_amount, min_tokens, timestamp, deadline) ==
    IF xlm_amount <= 0 THEN FacFail(toks, "buy", token, "InvalidAmount")
    ELSE IF min_tokens < 0 THEN FacFail(toks, "buy", token, "InvalidAmount")
    ELSE IF timestamp > deadline THEN FacFail(toks, "buy", token, "TransactionExpired")
    ELSE IF ~require_active(st) THEN FacFail(toks, "buy", token, "ContractPaused")
    ELSE IF token \notin DOMAIN toks THEN FacFail(toks, "buy", token, "TokenNotFound")
    ELSE IF ~is_bonding(toks[token]) THEN FacFail(toks, "buy", token, "AlreadyGraduated")
    ELSE buy_trade(toks, wasm, token, xlm_amount, min_tokens)

\* SacFactory::sell, after the checks of steps 1-4 (lines 373-416).
sell_trade(toks, token, token_amount, min_xlm) ==
    LET info == toks[token]
        xlm_gross == calculate_sell(info.bonding_curve, token_amount)
    IN
    IF ~xlm_gross.ok THEN FacFail(toks, "sell", token, xlm_gross.err)
    ELSE LET fee == apply_trading_fee(xlm_gross.val) IN
    IF ~fee.ok THEN FacFail(toks, "sell", token, fee.err)
    ELSE IF fee.net < min_xlm THEN FacFail(toks, "sell", token, "SlippageExceeded")
    ELSE LET exec == execute_sell(info.bonding_curve, xlm_gross.val, token_amount) IN
    IF ~exec.ok THEN FacFail(toks, "sell", token, exec.err)
    ELSE LET raised == safe_sub(info.xlm_raised, xlm_gross.val) IN
    IF ~raised.ok THEN FacFail(toks, "sell", token, raised.err)
    ELSE LET cap == safe_mul(raised.val, 2) IN
    IF ~cap.ok THEN FacFail(toks, "sell", token, cap.err)
    ELSE FacOk(set_token_info(toks, token,
                   [info EXCEPT !.bonding_curve = exec.curve,
                                !.xlm_raised = raised.val, !.market_cap = cap.val]),
               "sell", token, fee.net)

\* SacFactory::sell
sell(st, toks, token, token_amount, min_xlm, timestamp, deadline) ==
    IF token_amount <= 0 THEN FacFail(toks, "sell", token, "InvalidAmount")
    ELSE IF min_xlm < 0 THEN FacFail(toks, "sell", token, "InvalidAmount")
    ELSE IF timestamp > deadline THEN FacFail(toks, "sell", token, "TransactionExpired")
    ELSE IF ~require_active(st) THEN FacFail(toks, "sell", token, "ContractPaused")
    ELSE IF token \notin DOMAIN toks THEN FacFail(toks, "sell", token, "TokenNotFound")
    ELSE IF ~is_bonding(toks[token]) THEN FacFail(toks, "sell", token, "AlreadyGraduated")
    ELSE sell_trade(toks, token, token_amount, min_xlm)

-----------------------------------------------------------------------------
(* SacFactory: state machine *)

MaxFacOps == 5
MaxNow == 2

\* Inputs of the calls.  Launch: <<name.len(), symbol.len()>>; buy and sell:
\* <<amount, minimum, deadline>> at ledger time ts.
LaunchArgs == {<<5, 4>>, <<0, 4>>, <<33, 4>>, <<5, 0>>, <<5, 13>>, <<32, 12>>}
FacBuyAmounts == {0, 40000, 100000}
FacSellAmounts == {0, 50, 6000}
BuyArgs(ts) ==
    {<<a, 0, ts>> : a \in FacBuyAmounts}
    \cup {<<40000, 7000, ts>>, <<40000, -1, ts>>, <<40000, 0, ts - 1>>, <<0, 0, ts - 1>>}
SellArgs(ts) ==
    {<<a, 0, ts>> : a \in FacSellAmounts}
    \cup {<<50, 7000, ts>>, <<50, -1, ts>>, <<50, 0, ts - 1>>, <<0, 0, ts - 1>>}

\* The state SacFactory::initialize leaves (lib.rs lines 82-96): the admin is
\* Owner, the contract Active, no token launched, no AMM hash stored.
FacInit ==
    /\ fstate = "Active"
    /\ roles = {<<"admin", "Owner">>}
    /\ tokens = [t \in {} |-> 0]
    /\ amm_wasm = FALSE
    /\ now = 1
    /\ fac_last = FacFail(tokens, "initialize", "", "")
    /\ fac_ops = 0
    /\ xlm_held = [t \in Tokens |-> 0]

FacApply(r) ==
    /\ fac_ops < MaxFacOps
    /\ tokens' = r.tokens
    /\ fac_last' = [ok |-> r.ok, err |-> r.err, op |-> r.op, token |-> r.token, val |-> r.val]
    /\ fac_ops' = fac_ops + 1

LaunchToken ==
    /\ \E token \in Tokens, x \in LaunchArgs :
          FacApply(launch_token(fstate, tokens, token, x[1], x[2]))
    /\ UNCHANGED <<fstate, roles, amm_wasm, now, xlm_held>>

\* buy transfers xlm_amount from the buyer to the factory (line 254), sell
\* transfers xlm_net, its return value, from the factory to the seller (line
\* 398); a failed call transfers nothing.
Buy ==
    /\ \E token \in Tokens, x \in BuyArgs(now) :
          LET r == buy(fstate, tokens, amm_wasm, token, x[1], x[2], now, x[3]) IN
          /\ FacApply(r)
          /\ xlm_held' = IF r.ok THEN [xlm_held EXCEPT ![token] = @ + x[1]] ELSE xlm_held
    /\ UNCHANGED <<fstate, roles, amm_wasm, now>>

Sell ==
    /\ \E token \in Tokens, x \in SellArgs(now) :
          LET r == sell(fstate, tokens, token, x[1], x[2], now, x[3]) IN
          /\ FacApply(r)
          /\ xlm_held' = IF r.ok THEN [xlm_held EXCEPT ![token] = @ - r.val] ELSE xlm_held
    /\ UNCHANGED <<fstate, roles, amm_wasm, now>>

Pause ==
    /\ \E admin \in Accounts :
          LET r == pause(fstate, roles, admin) IN
          /\ fstate' = r.state
          /\ FacApply([ok |-> r.ok, err |-> r.err, op |-> "pause", token |-> "",
                       tokens |-> tokens, val |-> 0])
    /\ UNCHANGED <<roles, amm_wasm, now, xlm_held>>

Unpause ==
    /\ \E admin \in Accounts :
          LET r == unpause(fstate, roles, admin) IN
          /\ fstate' = r.state
          /\ FacApply([ok |-> r.ok, err |-> r.err, op |-> "unpause", token |-> "",
                       tokens |-> tokens, val |-> 0])
    /\ UNCHANGED <<roles, amm_wasm, now, xlm_held>>

\* SacFactory::set_amm_wasm_hash (lines 516-526): Owner only.
SetAmmWasmHash ==
    /\ \E admin \in Accounts :
          LET ok == has_role(roles, admin, "Owner") IN
          /\ amm_wasm' = (amm_wasm \/ ok)
          /\ FacApply([ok |-> ok, err |-> IF ok THEN "" ELSE "Unauthorized",
                       op |-> "set_amm_wasm_hash", token |-> "", tokens |-> tokens, val |-> 0])
    /\ UNCHANGED <<fstate, roles, now, xlm_held>>

\* The ledger closes: the timestamp advances.
Tick ==
    /\ now < MaxNow
    /\ now' = now + 1
    /\ UNCHANGED <<fstate, roles, tokens, amm_wasm, fac_last, fac_ops, xlm_held>>

FacNext ==
    (LaunchToken \/ Buy \/ Sell \/ Pause \/ Unpause \/ SetAmmWasmHash \/ Tick)
        /\ UNCHANGED <<amm_vars, curve_vars, guard_vars, oracle_vars, math_vars, v2_vars>>

\* The access-control entry points of SacFactory (lib.rs lines 485-497), called
\* by any address for any address and role.
RoleAccounts == {"admin", "user", "guest"}
RoleNames == {"Owner", "PauseAdmin"}

RoleApply(op, r, caller, account, role) ==
    /\ roles' = r.roles
    /\ fac_last' = [ok |-> r.ok, err |-> r.err, op |-> op, token |-> "", val |-> 0,
                    caller |-> caller, account |-> account, role |-> role]
    /\ UNCHANGED <<fstate, tokens, amm_wasm, now, fac_ops, xlm_held>>

GrantRole ==
    \E granter \in RoleAccounts, account \in RoleAccounts, role \in RoleNames :
        RoleApply("grant_role", grant_role(roles, granter, account, role),
                  granter, account, role)

RevokeRole ==
    \E revoker \in RoleAccounts, account \in RoleAccounts, role \in RoleNames :
        RoleApply("revoke_role", revoke_role(roles, revoker, account, role),
                  revoker, account, role)

TransferOwnership ==
    \E current_owner \in RoleAccounts, new_owner \in RoleAccounts :
        RoleApply("transfer_ownership", transfer_ownership(roles, current_owner, new_owner),
                  current_owner, new_owner, "Owner")

RolesNext ==
    (GrantRole \/ RevokeRole \/ TransferOwnership)
        /\ UNCHANGED <<amm_vars, curve_vars, guard_vars, oracle_vars, math_vars, v2_vars>>

-----------------------------------------------------------------------------
(* amm-pair/src/reentrancy.rs, storage_v2.rs : the reentrancy lock *)

\* acquire_lock without the is_locked test.
acquire_lock_unchecked(locked) == [ok |-> TRUE, err |-> "", lock |-> TRUE]

\* acquire_lock: panics when the lock is set, sets it otherwise.
acquire_lock(locked) ==
    IF locked THEN [ok |-> FALSE, err |-> "reentrancy detected", lock |-> locked]
    ELSE [ok |-> TRUE, err |-> "", lock |-> TRUE]

\* release_lock removes the key: is_locked reads FALSE.
release_lock(locked) == FALSE

\* ReentrancyGuard::new: the guard exists only if acquire_lock returned.
guard_new(locked) == acquire_lock(locked)

\* A release written at the end of the body: an early error return or an abort skips it.
drop_guard_on_return(locked, path) == IF path = "return" THEN FALSE ELSE locked

\* Drop for ReentrancyGuard: runs when the guard goes out of scope, whatever
\* the way the body is left.  (On an abort the guard is dropped while
\* unwinding; in a build that traps instead, the host discards the
\* invocation's storage writes, the lock among them.)
drop_guard(locked, path) == release_lock(locked)

\* storage_v2::check_reentrancy
check_reentrancy(locked) ==
    IF locked THEN [ok |-> FALSE, err |-> "Reentrancy", lock |-> locked]
    ELSE [ok |-> TRUE, err |-> "", lock |-> TRUE]

\* storage_v2::release_reentrancy
release_reentrancy(locked) == FALSE

MaxGuardOps == 6
MaxDepth == 3
ExitPaths == {"return", "error", "abort"}

GuardInit ==
    /\ lock = FALSE
    /\ frames = <<>>
    /\ lock_v2 = FALSE
    /\ holders_v2 = 0
    /\ guard_log = <<>>

\* A call of a guarded function arrives: from outside when no body is in
\* progress, re-entrantly (through an external call of the body) otherwise.
GuardEnter ==
    /\ Len(guard_log) < MaxGuardOps
    /\ Len(frames) < MaxDepth
    /\ LET r == guard_new(lock) IN
       /\ lock' = r.lock
       /\ frames' = IF r.ok THEN Append(frames, "guarded") ELSE frames
       /\ guard_log' = Append(guard_log, IF r.ok THEN "new" ELSE r.err)
    /\ UNCHANGED <<lock_v2, holders_v2>>

\* The innermost guarded body is left, by a normal return, an error return or
\* an abort; its guard is dropped.
GuardExit ==
    /\ Len(guard_log) < MaxGuardOps
    /\ frames # <<>>
    /\ \E path \in ExitPaths :
          /\ lock' = drop_guard(lock, path)
          /\ guard_log' = Append(guard_log, path)
    /\ frames' = SubSeq(frames, 1, Len(frames) - 1)
    /\ UNCHANGED <<lock_v2, holders_v2>>

\* A caller of the storage_v2 helpers enters its critical section.
V2Check ==
    /\ Len(guard_log) < MaxGuardOps
    /\ holders_v2 < MaxDepth
    /\ LET r == check_reentrancy(lock_v2) IN
       /\ lock_v2' = r.lock
       /\ holders_v2' = IF r.ok THEN holders_v2 + 1 ELSE holders_v2
       /\ guard_log' = Append(guard_log, IF r.ok THEN "check" ELSE r.err)
    /\ UNCHANGED <<lock, frames>>

\* The caller that passed check_reentrancy releases at the end of its section.
V2Release ==
    /\ Len(guard_log) < MaxGuardOps
    /\ holders_v2 > 0
    /\ lock_v2' = release_reentrancy(lock_v2)
    /\ holders_v2' = holders_v2 - 1
    /\ guard_log' = Append(guard_log, "release")
    /\ UNCHANGED <<lock, frames>>

GuardNext ==
    (GuardEnter \/ GuardExit \/ V2Check \/ V2Release)
        /\ UNCHANGED <<amm_vars, curve_vars, fac_vars, oracle_vars, math_vars, v2_vars>>

-----------------------------------------------------------------------------
(* amm-pair/src/oracle.rs : Oracle *)

OBSERVATION_BUFFER_SIZE == 8
\* PRECISION of Oracle::update (10^9 in the source), on the scale of the model.
ORACLE_PRECISION == 1000

Slots == 0 .. (OBSERVATION_BUFFER_SIZE - 1)

empty_observation == [timestamp |-> 0, price_0_cumulative |-> 0, price_1_cumulative |-> 0]

\* Oracle::new
new_oracle ==
    [last_observation |-> empty_observation,
     observations |-> [i \in Slots |-> empty_observation],
     index |-> 0]

\* checked_sub on u64
checked_sub_u64(a, b) == IF a - b < 0 THEN None ELSE Some(a - b)

\* The spot price term of update (lines 77-89).
spot(reserve_num, reserve_den) ==
    IF reserve_den > 0
    THEN LET m == checked_mul(reserve_num, ORACLE_PRECISION) IN
         IF ~m.ok THEN CurveErr("Overflow")
         ELSE Res(checked_div(m.val, reserve_den), "DivisionByZero")
    ELSE CurveOk(0)

OracleErr(o, e) == [ok |-> FALSE, err |-> e, oracle |-> o]

\* Oracle::update with `<` for `<=` in the timestamp test of line 66.
skip_update_strict(timestamp, last_timestamp) == timestamp < last_timestamp

\* Line 66: nothing is recorded unless the timestamp has increased.
skip_update(timestamp, last_timestamp) == timestamp <= last_timestamp

\* Line 105 without the wrap-around.
next_index_unwrapped(index) == index + 1

\* Line 105: the index after a store.
next_index(index) == (index + 1) % OBSERVATION_BUFFER_SIZE

\* Oracle::update: [ok, err, oracle]
update(o, timestamp, reserve_0, reserve_1) ==
    IF skip_update(timestamp, o.last_observation.timestamp)
    THEN [ok |-> TRUE, err |-> "", oracle |-> o]
    ELSE LET time_elapsed == checked_sub_u64(timestamp, o.last_observation.timestamp) IN
    IF ~time_elapsed.ok THEN OracleErr(o, "Underflow")
    ELSE LET price_0 == spot(reserve_1, reserve_0) IN
    IF ~price_0.ok THEN OracleErr(o, price_0.err)
    ELSE LET price_1 == spot(reserve_0, reserve_1) IN
    IF ~price_1.ok THEN OracleErr(o, price_1.err)
    ELSE LET price_0_delta == checked_mul(price_0.val, time_elapsed.val)
             price_1_delta == checked_mul(price_1.val, time_elapsed.val) IN
    IF ~price_0_delta.ok \/ ~price_1_delta.ok THEN OracleErr(o, "Overflow")
    ELSE LET c0 == checked_add(o.last_observation.price_0_cumulative, price_0_delta.val)
             c1 == checked_add(o.last_observation.price_1_cumulative, price_1_delta.val) IN
    IF ~c0.ok \/ ~c1.ok THEN OracleErr(o, "Overflow")
    ELSE LET new_observation ==
                 [timestamp |-> timestamp, price_0_cumulative |-> c0.val,
                  price_1_cumulative |-> c1.val]
         IN [ok |-> TRUE, err |-> "",
             oracle |-> [last_observation |-> new_observation,
                         observations |-> [o.observations EXCEPT ![o.index] = new_observation],
                         index |-> next_index(o.index)]]

\* The loop of get_twap (lines 128-133), from slot i on.
RECURSIVE twap_scan(_, _, _, _)
twap_scan(obs, i, oldest, target_timestamp) ==
    IF i = OBSERVATION_BUFFER_SIZE THEN oldest
    ELSE twap_scan(obs, i + 1,
                   IF obs[i].timestamp <= target_timestamp
                      /\ obs[i].timestamp > oldest.timestamp
                   THEN obs[i] ELSE oldest,
                   target_timestamp)

\* Oracle::get_twap: [ok, err, val]
get_twap(o, seconds_ago) ==
    IF seconds_ago = 0 THEN CurveErr("InvalidAmount")
    ELSE LET target_timestamp == checked_sub_u64(o.last_observation.timestamp, seconds_ago) IN
    IF ~target_timestamp.ok THEN CurveErr("Underflow")
    ELSE LET oldest == twap_scan(o.observations, 0, o.observations[0], target_timestamp.val) IN
    IF oldest.timestamp = 0 THEN CurveErr("InsufficientLiquidity")
    ELSE LET time_elapsed == checked_sub_u64(o.last_observation.timestamp, oldest.timestamp) IN
    IF ~time_elapsed.ok THEN CurveErr("Underflow")
    ELSE IF time_elapsed.val = 0 THEN CurveErr("InvalidAmount")
    ELSE LET price_cumulative_delta ==
                 checked_sub(o.last_observation.price_0_cumulative, oldest.price_0_cumulative) IN
    IF ~price_cumulative_delta.ok THEN CurveErr("Underflow")
    ELSE Res(checked_div(price_cumulative_delta.val, time_elapsed.val), "DivisionByZero")

MaxOracleTime == 8
MaxSecondsAgo == 3
ReservePairs == {<<1, 1>>, <<1, 2>>}

OracleInit ==
    /\ oracle = new_oracle
    /\ oracle_now = 0
    /\ oracle_last = [op |-> "new", ok |-> TRUE, err |-> "", val |-> 0, arg |-> 0,
                      reserve_0 |-> 0, reserve_1 |-> 0]
    /\ observed = <<>>

\* The ledger closes: the timestamp advances, up to the ledger time `last`.
LedgerCloses(last) ==
    /\ oracle_now < last
    /\ oracle_now' = oracle_now + 1
    /\ oracle_last' = [op |-> "", ok |-> TRUE, err |-> "", val |-> 0, arg |-> 0,
                       reserve_0 |-> 0, reserve_1 |-> 0]
    /\ UNCHANGED <<oracle, observed>>

OracleTick == LedgerCloses(MaxOracleTime)

\* Oracle::update called with the reserves of one of `pairs`.
UpdateWith(pairs) ==
    /\ \E r \in pairs :
          LET res == update(oracle, oracle_now, r[1], r[2]) IN
          /\ oracle' = res.oracle
          /\ oracle_last' = [op |-> "update", ok |-> res.ok, err |-> res.err,
                             val |-> 0, arg |-> oracle_now,
                             reserve_0 |-> r[1], reserve_1 |-> r[2]]
          \* line 104 was reached: the observation stored there joins the record
          /\ observed' = IF res.ok /\ ~skip_update(oracle_now, oracle.last_observation.timestamp)
                         THEN Append(observed, res.oracle.observations[oracle.index])
                         ELSE observed
    /\ UNCHANGED oracle_now

OracleUpdate == UpdateWith(ReservePairs)

OracleGetTwap ==
    /\ \E seconds_ago \in 0 .. MaxSecondsAgo :
          LET res == get_twap(oracle, seconds_ago) IN
          oracle_last' = [op |-> "get_twap", ok |-> res.ok, err |-> res.err,
                          val |-> res.val, arg |-> seconds_ago,
                          reserve_0 |-> 0, reserve_1 |-> 0]
    /\ UNCHANGED <<oracle, oracle_now, observed>>

OracleNext ==
    (OracleTick \/ OracleUpdate \/ OracleGetTwap)
        /\ UNCHANGED <<amm_vars, curve_vars, fac_vars, guard_vars, math_vars, v2_vars>>

\* The oracle under updates alone, over enough ledgers to overwrite the buffer:
\* reserves with two different prices, an empty side, and a reserve whose
\* price does not fit the integer width.
MaxRingTime == 9
RingPairs == {<<1, 2>>, <<0, 3>>, <<1, I128_MAX>>}

RingTick == LedgerCloses(MaxRingTime)

RingUpdate == UpdateWith(RingPairs)

RingNext ==
    (RingTick \/ RingUpdate)
        /\ UNCHANGED <<amm_vars, curve_vars, fac_vars, guard_vars, math_vars, v2_vars>>

-----------------------------------------------------------------------------
(* amm-pair/src/math_v2.rs, math.rs, validation.rs; sac-factory/src/math.rs :  *)
(* the pure functions                                                         *)

DEFAULT_FEE_BPS == 30
MAX_PRICE_IMPACT_BPS == 500

\* Option::unwrap_or
unwrap_or(opt, default) == IF opt.ok THEN opt.val ELSE default

\* math_v2::sqrt
RECURSIVE sqrt_v2_loop(_, _, _)
sqrt_v2_loop(y, z, x) ==
    IF x < z
    THEN LET y_div_x == checked_div(y, x) IN
         IF ~y_div_x.ok THEN CurveErr("DivisionByZero")
         ELSE LET sum == checked_add(y_div_x.val, x) IN
         IF ~sum.ok THEN CurveErr("Overflow")
         ELSE sqrt_v2_loop(y, x, checked_div(sum.val, 2).val)
    ELSE CurveOk(z)

sqrt_v2(y) ==
    IF y < 0 THEN CurveErr("InvalidAmount")
    ELSE IF y < 4 THEN CurveOk(IF y = 0 THEN 0 ELSE 1)
    ELSE LET x == checked_add(checked_div(y, 2).val, 1) IN
         IF ~x.ok THEN CurveErr("Overflow") ELSE sqrt_v2_loop(y, y, x.val)

\* sac-factory math::sqrt
RECURSIVE factory_sqrt_loop(_, _, _)
factory_sqrt_loop(y, z, x) ==
    IF x < z
    THEN LET y_div_x == safe_div(y, x) IN
         IF ~y_div_x.ok THEN y_div_x
         ELSE LET sum == safe_add(x, y_div_x.val) IN
         IF ~sum.ok THEN sum
         ELSE LET half == safe_div(sum.val, 2) IN
         IF ~half.ok THEN half ELSE factory_sqrt_loop(y, x, half.val)
    ELSE CurveOk(z)

factory_sqrt(y) ==
    IF y < 0 THEN CurveErr("InvalidAmount")
    ELSE IF y = 0 THEN CurveOk(0)
    ELSE LET half == safe_div(y, 2) IN
         IF ~half.ok THEN half
         ELSE LET x == checked_add(half.val, 1) IN
         IF ~x.ok THEN CurveErr("Overflow") ELSE factory_sqrt_loop(y, y, x.val)

\* math_v2::get_amount_out; fee_bps is an Option
get_amount_out_v2(amount_in, reserve_in, reserve_out, fee_bps) ==
    IF amount_in <= 0 THEN CurveErr("InsufficientInputAmount")
    ELSE IF reserve_in <= 0 \/ reserve_out <= 0 THEN CurveErr("InsufficientLiquidity")
    ELSE LET fee == unwrap_or(fee_bps, DEFAULT_FEE_BPS)
             fee_multiplier == checked_sub(FEE_DENOMINATOR, fee) IN
    IF ~fee_multiplier.ok THEN CurveErr("Underflow")
    ELSE LET amount_in_with_fee == checked_mul(amount_in, fee_multiplier.val) IN
    IF ~amount_in_with_fee.ok THEN CurveErr("Overflow")
    ELSE LET numerator == checked_mul(amount_in_with_fee.val, reserve_out) IN
    IF ~numerator.ok THEN CurveErr("Overflow")
    ELSE LET reserve_product == checked_mul(reserve_in, FEE_DENOMINATOR) IN
    IF ~reserve_product.ok THEN CurveErr("Overflow")
    ELSE LET denominator == checked_add(reserve_product.val, amount_in_with_fee.val) IN
    IF ~denominator.ok THEN CurveErr("Overflow")
    ELSE Res(checked_div(numerator.val, denominator.val), "DivisionByZero")

\* math_v2::get_amount_in without the final `+ 1`.
get_amount_in_v2_floor(amount_out, reserve_in, reserve_out, fee_bps) ==
    IF amount_out <= 0 THEN CurveErr("InsufficientOutputAmount")
    ELSE IF reserve_in <= 0 \/ reserve_out <= 0 THEN CurveErr("InsufficientLiquidity")
    ELSE IF amount_out >= reserve_out THEN CurveErr("InsufficientReserve")
    ELSE LET fee == unwrap_or(fee_bps, DEFAULT_FEE_BPS)
             fee_multiplier == checked_sub(FEE_DENOMINATOR, fee) IN
    IF ~fee_multiplier.ok THEN CurveErr("Underflow")
    ELSE LET reserve_product == checked_mul(reserve_in, amount_out) IN
    IF ~reserve_product.ok THEN CurveErr("Overflow")
    ELSE LET numerator == checked_mul(reserve_product.val, FEE_DENOMINATOR) IN
    IF ~numerator.ok THEN CurveErr("Overflow")
    ELSE LET reserve_diff == checked_sub(reserve_out, amount_out) IN
    IF ~reserve_diff.ok THEN CurveErr("Underflow")
    ELSE LET denominator == checked_mul(reserve_diff.val, fee_multiplier.val) IN
    IF ~denominator.ok THEN CurveErr("Overflow")
    ELSE Res(checked_div(numerator.val, denominator.val), "DivisionByZero")

\* math_v2::get_amount_in
get_amount_in_v2(amount_out, reserve_in, reserve_out, fee_bps) ==
    IF amount_out <= 0 THEN CurveErr("InsufficientOutputAmount")
    ELSE IF reserve_in <= 0 \/ reserve_out <= 0 THEN CurveErr("InsufficientLiquidity")
    ELSE IF amount_out >= reserve_out THEN CurveErr("InsufficientReserve")
    ELSE LET fee == unwrap_or(fee_bps, DEFAULT_FEE_BPS)
             fee_multiplier == checked_sub(FEE_DENOMINATOR, fee) IN
    IF ~fee_multiplier.ok THEN CurveErr("Underflow")
    ELSE LET reserve_product == checked_mul(reserve_in, amount_out) IN
    IF ~reserve_product.ok THEN CurveErr("Overflow")
    ELSE LET numerator == checked_mul(reserve_product.val, FEE_DENOMINATOR) IN
    IF ~numerator.ok THEN CurveErr("Overflow")
    ELSE LET reserve_diff == checked_sub(reserve_out, amount_out) IN
    IF ~reserve_diff.ok THEN CurveErr("Underflow")
    ELSE LET denominator == checked_mul(reserve_diff.val, fee_multiplier.val) IN
    IF ~denominator.ok THEN CurveErr("Overflow")
    ELSE LET base_amount == checked_div(numerator.val, denominator.val) IN
    IF ~base_amount.ok THEN CurveErr("DivisionByZero")
    ELSE Res(checked_add(base_amount.val, 1), "Overflow")

\* math::get_amount_in (amm-pair/src/math.rs): a panic is the result [ok |-> FALSE].
get_amount_in(amount_out, reserve_in, reserve_out) ==
    IF amount_out <= 0 THEN CurveErr("insufficient output amount")
    ELSE IF reserve_in <= 0 \/ reserve_out <= 0 THEN CurveErr("insufficient liquidity")
    ELSE IF amount_out >= reserve_out THEN CurveErr("insufficient reserve")
    ELSE LET fee_multiplier == FEE_DENOMINATOR - FEE_BPS
             numerator == reserve_in * amount_out * FEE_DENOMINATOR
             denominator == (reserve_out - amount_out) * fee_multiplier
         IN CurveOk(TruncDiv(numerator, denominator) + 1)

\* math_v2::calculate_price_impact
calculate_price_impact(amount_in, reserve_in, reserve_out) ==
    IF reserve_in = 0 \/ reserve_out = 0 THEN CurveErr("InsufficientLiquidity")
    ELSE LET amount_out == get_amount_out_v2(amount_in, reserve_in, reserve_out, None) IN
    IF ~amount_out.ok THEN amount_out
    ELSE LET new_reserve_in == checked_add(reserve_in, amount_in) IN
    IF ~new_reserve_in.ok THEN CurveErr("Overflow")
    ELSE LET new_reserve_out == checked_sub(reserve_out, amount_out.val) IN
    IF ~new_reserve_out.ok THEN CurveErr("Underflow")
    ELSE LET old_price_numerator == checked_mul(reserve_out, FEE_DENOMINATOR) IN
    IF ~old_price_numerator.ok THEN CurveErr("Overflow")
    ELSE LET old_price == checked_div(old_price_numerator.val, reserve_in) IN
    IF ~old_price.ok THEN CurveErr("DivisionByZero")
    ELSE LET new_price_numerator == checked_mul(new_reserve_out.val, FEE_DENOMINATOR) IN
    IF ~new_price_numerator.ok THEN CurveErr("Overflow")
    ELSE LET new_price == checked_div(new_price_numerator.val, new_reserve_in.val) IN
    IF ~new_price.ok THEN CurveErr("DivisionByZero")
    ELSE LET price_diff == IF old_price.val > new_price.val
                           THEN checked_sub(old_price.val, new_price.val)
                           ELSE checked_sub(new_price.val, old_price.val) IN
    IF ~price_diff.ok THEN CurveErr("Underflow")
    ELSE LET impact == checked_mul(price_diff.val, FEE_DENOMINATOR) IN
    IF ~impact.ok THEN CurveErr("Overflow")
    ELSE Res(checked_div(impact.val, old_price.val), "DivisionByZero")

\* math_v2::validate_price_impact; max_impact_bps is an Option
validate_price_impact(amount_in, reserve_in, reserve_out, max_impact_bps) ==
    LET impact == calculate_price_impact(amount_in, reserve_in, reserve_out) IN
    IF ~impact.ok THEN impact
    ELSE IF impact.val > unwrap_or(max_impact_bps, MAX_PRICE_IMPACT_BPS)
         THEN CurveErr("PriceImpactTooHigh")
    ELSE CurveOk(0)

\* validation::validate_k_invariant
validate_k_invariant(reserve_0_before, reserve_1_before, reserve_0_after, reserve_1_after) ==
    LET k_before == checked_mul(reserve_0_before, reserve_1_before) IN
    IF ~k_before.ok THEN CurveErr("Overflow")
    ELSE LET k_after == checked_mul(reserve_0_after, reserve_1_after) IN
    IF ~k_after.ok THEN CurveErr("Overflow")
    ELSE IF k_after.val < k_before.val THEN CurveErr("KInvariantViolated")
    ELSE CurveOk(0)

-----------------------------------------------------------------------------
(* The pure functions: calls with arguments drawn from bounded sets.  The   *)
(* functions keep no state, so a behaviour is one call from the initial    *)
(* state.                                                                   *)

MathAmounts == {1, 2, 10, 100}
MathReserves == {1, 10, 100, 1000}
MaxMathOut == 12
MathReservesIn == {1, 7, 100, 1000}
MathReservesOut == {2, 13, 100, 1000}
FeeOptions == {None, Some(0), Some(30), Some(9999)}
KReserves == {1, 900, 1000, 1100, 32768, I128_MAX}
MaxSqrt == 130
SqrtInputs == (-2 .. MaxSqrt) \cup {I128_MIN, 1023 * 1023, 1024 * 1024 - 1, 1024 * 1024,
                                   I128_MAX - 1, I128_MAX}
SafeOperands == {I128_MIN, I128_MIN + 1, -32768, -2, -1, 0, 1, 2, 7, 32768,
                 I128_MAX - 1, I128_MAX}
\* Factors whose exact product TLC can form.
MulPairs ==
    LET half == {<<I128_MAX, 2>>, <<I128_MAX, 1>>, <<I128_MAX, -1>>, <<I128_MAX, -2>>,
                 <<I128_MIN, 1>>, <<I128_MIN, -1>>, <<I128_MIN, 2>>, <<I128_MIN, 0>>,
                 <<32768, 32768>>, <<32768, -32768>>, <<-32768, -32768>>,
                 <<32768, 32767>>, <<46340, 46340>>, <<-46340, 46340>>,
                 <<16384, 65536>>, <<-16384, 65536>>, <<65536, 16383>>,
                 <<3, 5>>, <<-7, 6>>, <<-7, -6>>, <<0, 0>>, <<1, 1>>, <<100, 5>>}
    IN half \cup {<<x[2], x[1]>> : x \in half}
Divisors == {-2, -1, 0, 1, 2, 7, 10}
ImpactAmounts == {0, 1, 10, 100}
ImpactReserves == {1, 10, 100, 1000, 10000}
ImpactCeilings == {None, Some(200)}

MathCall(fn, args, r, r2) ==
    [fn |-> fn, args |-> args, ok |-> r.ok, err |-> r.err, val |-> r.val,
     ok2 |-> r2.ok, err2 |-> r2.err, val2 |-> r2.val]

NoCall == CurveErr("")

MathInit == math_last = MathCall("", <<>>, NoCall, NoCall)

\* get_amount_out with the default fee
MathGetAmountOut ==
    \E amount_in \in MathAmounts, reserve_in \in MathReserves, reserve_out \in MathReserves :
        math_last' = MathCall("get_amount_out", <<amount_in, reserve_in, reserve_out>>,
                              get_amount_out_v2(amount_in, reserve_in, reserve_out, None), NoCall)

\* get_amount_out, then get_amount_in of its result
MathRoundTrip ==
    \E x \in MathAmounts, reserve_in \in MathReserves, reserve_out \in MathReserves :
        LET out == get_amount_out_v2(x, reserve_in, reserve_out, None) IN
        math_last' = MathCall("roundtrip", <<x, reserve_in, reserve_out>>, out,
                              IF out.ok THEN get_amount_in_v2(out.val, reserve_in, reserve_out, None)
                              ELSE NoCall)

\* math_v2::get_amount_in, then get_amount_out of its result with the same fee
MathGetAmountIn ==
    \E amount_out \in 1 .. MaxMathOut, reserve_in \in MathReservesIn,
       reserve_out \in MathReservesOut, fee \in FeeOptions :
        LET in == get_amount_in_v2(amount_out, reserve_in, reserve_out, fee) IN
        math_last' = MathCall("get_amount_in",
                              <<amount_out, reserve_in, reserve_out, unwrap_or(fee, DEFAULT_FEE_BPS)>>,
                              in,
                              IF in.ok THEN get_amount_out_v2(in.val, reserve_in, reserve_out, fee)
                              ELSE NoCall)

\* math::get_amount_in, then math::get_amount_out of its result
MathGetAmountInV1 ==
    \E amount_out \in 1 .. MaxMathOut, reserve_in \in MathReservesIn,
       reserve_out \in MathReservesOut :
        LET in == get_amount_in(amount_out, reserve_in, reserve_out) IN
        math_last' = MathCall("get_amount_in", <<amount_out, reserve_in, reserve_out, FEE_BPS>>,
                              in,
                              IF in.ok THEN get_amount_out(in.val, reserve_in, reserve_out)
                              ELSE NoCall)

MathValidateK ==
    \E b0 \in KReserves, b1 \in KReserves, a0 \in KReserves, a1 \in KReserves :
        math_last' = MathCall("validate_k_invariant", <<b0, b1, a0, a1>>,
                              validate_k_invariant(b0, b1, a0, a1), NoCall)

\* sac-factory math::sqrt, and math_v2::sqrt of the same input
MathSqrt ==
    \E y \in SqrtInputs :
        math_last' = MathCall("sqrt", <<y>>, factory_sqrt(y), sqrt_v2(y))

MathSafeAdd ==
    \E a \in SafeOperands, b \in SafeOperands :
        math_last' = MathCall("safe_add", <<a, b>>, safe_add(a, b), NoCall)

MathSafeSub ==
    \E a \in SafeOperands, b \in SafeOperands :
        math_last' = MathCall("safe_sub", <<a, b>>, safe_sub(a, b), NoCall)

MathSafeMul ==
    \E x \in MulPairs :
        math_last' = MathCall("safe_mul", x, safe_mul(x[1], x[2]), NoCall)

MathSafeDiv ==
    \E a \in SafeOperands, b \in SafeOperands :
        math_last' = MathCall("safe_div", <<a, b>>, safe_div(a, b), NoCall)

MathMulDiv ==
    \E x \in MulPairs, c \in Divisors :
        math_last' = MathCall("mul_div", <<x[1], x[2], c>>, mul_div(x[1], x[2], c), NoCall)

\* validate_price_impact, and calculate_price_impact of the same trade
MathValidatePriceImpact ==
    \E amount_in \in ImpactAmounts, reserve_in \in ImpactReserves,
       reserve_out \in ImpactReserves, ceiling \in ImpactCeilings :
        math_last' = MathCall("validate_price_impact",
                              <<amount_in, reserve_in, reserve_out,
                                unwrap_or(ceiling, MAX_PRICE_IMPACT_BPS)>>,
                              validate_price_impact(amount_in, reserve_in, reserve_out, ceiling),
                              calculate_price_impact(amount_in, reserve_in, reserve_out))

MathNext ==
    math_last.fn = "" /\
    (MathGetAmountOut \/ MathRoundTrip \/ MathGetAmountIn \/ MathGetAmountInV1
     \/ MathValidateK \/ MathSqrt \/ MathSafeAdd \/ MathSafeSub \/ MathSafeMul
     \/ MathSafeDiv \/ MathMulDiv \/ MathValidatePriceImpact)
        /\ UNCHANGED <<amm_vars, curve_vars, fac_vars, guard_vars, oracle_vars, v2_vars>>

-----------------------------------------------------------------------------
(* token-factory/src/bonding_curve_v2.rs : BondingCurveV2 *)

\* PRECISION (10^6 in the source), the stroop adjustment 10_000_000 of the buy
\* and sell formulas, base_price (100) and the steepness k of the three
\* constructors (10^9, 10^8, 5 * 10^8), on the scale of the model.
V2_PRECISION == 100
STROOPS == 10
BASE_PRICE == 10
K_LINEAR == 1000
K_EXPONENTIAL == 100
K_SIGMOID == 500
\* The sell penalties of the constructors and the basis-point denominator.
PENALTY_LINEAR == 200
PENALTY_EXPONENTIAL == 300
PENALTY_SIGMOID == 200
BPS_DENOMINATOR == 10000

new_v2(curve_type, total_supply, k, sell_penalty_bps) ==
    [curve_type |-> curve_type, circulating_supply |-> 0, total_supply |-> total_supply,
     base_price |-> BASE_PRICE, k |-> k, xlm_reserve |-> 0,
     sell_penalty_bps |-> sell_penalty_bps]

new_linear(total_supply) == new_v2("Linear", total_supply, K_LINEAR, PENALTY_LINEAR)
new_exponential(total_supply) ==
    new_v2("Exponential", total_supply, K_EXPONENTIAL, PENALTY_EXPONENTIAL)
new_sigmoid(total_supply) == new_v2("Sigmoid", total_supply, K_SIGMOID, PENALTY_SIGMOID)

\* price_linear: base_price + circulating_supply * PRECISION / k, saturating.
price_linear(c) ==
    LET scaled == unwrap_or(checked_mul(c.circulating_supply, V2_PRECISION), I128_MAX)
        price_increase == unwrap_or(checked_div(scaled, c.k), 0)
    IN unwrap_or(checked_add(c.base_price, price_increase), I128_MAX)

\* price_exponential: base_price * (1 + x + x^2 / 2) with x = circulating_supply / k.
price_exponential(c) ==
    IF c.circulating_supply = 0 THEN c.base_price
    ELSE LET scaled == unwrap_or(checked_mul(c.circulating_supply, V2_PRECISION), I128_MAX)
             x == unwrap_or(checked_div(scaled, c.k), 0)
             x_squared == unwrap_or(checked_div(unwrap_or(checked_mul(x, x), I128_MAX),
                                                V2_PRECISION), 0)
             exp_approx == V2_PRECISION + x + TruncDiv(x_squared, 2)
         IN unwrap_or(checked_div(unwrap_or(checked_mul(c.base_price, exp_approx), I128_MAX),
                                  V2_PRECISION), I128_MAX)

\* price_sigmoid: the three phases around the midpoint of the supply.
price_sigmoid(c) ==
    LET midpoint == TruncDiv(c.total_supply, 2) IN
    IF c.circulating_supply < TruncDiv(midpoint, 2) THEN TruncDiv(price_linear(c), 2)
    ELSE IF c.circulating_supply < TruncDiv(midpoint * 3, 2) THEN price_exponential(c)
    ELSE price_linear(c) * 2

\* BondingCurveV2::get_current_price
v2_current_price(c) ==
    IF c.circulating_supply = 0 THEN c.base_price
    ELSE IF c.curve_type = "Linear" THEN price_linear(c)
    ELSE IF c.curve_type = "Exponential" THEN price_exponential(c)
    ELSE price_sigmoid(c)

\* calculate_buy_linear, calculate_buy_exponential and calculate_buy_sigmoid:
\* the three bodies are the same, tokens at the current price.
calculate_buy_at_price(c, xlm_amount) ==
    LET value == checked_mul(xlm_amount, STROOPS) IN
    IF ~value.ok THEN CurveErr("Overflow")
    ELSE Res(checked_div(value.val, v2_current_price(c)), "DivisionByZero")

\* calculate_sell_linear, calculate_sell_exponential and calculate_sell_sigmoid.
calculate_sell_at_price(c, token_amount) ==
    LET value == checked_mul(token_amount, v2_current_price(c)) IN
    IF ~value.ok THEN CurveErr("Overflow")
    ELSE Res(checked_div(value.val, STROOPS), "DivisionByZero")

\* BondingCurveV2::calculate_buy_amount
calculate_buy_amount(c, xlm_amount) ==
    IF xlm_amount <= 0 THEN CurveErr("AmountTooSmall")
    ELSE calculate_buy_at_price(c, xlm_amount)

\* BondingCurveV2::calculate_sell_amount
calculate_sell_amount(c, token_amount) ==
    IF token_amount <= 0 THEN CurveErr("AmountTooSmall")
    ELSE IF token_amount > c.circulating_supply THEN CurveErr("InsufficientBalance")
    ELSE LET xlm_before_penalty == calculate_sell_at_price(c, token_amount) IN
    IF ~xlm_before_penalty.ok THEN xlm_before_penalty
    ELSE LET scaled == checked_mul(xlm_before_penalty.val, c.sell_penalty_bps) IN
    IF ~scaled.ok THEN CurveErr("Overflow")
    ELSE LET penalty == checked_div(scaled.val, BPS_DENOMINATOR) IN
    IF ~penalty.ok THEN CurveErr("DivisionByZero")
    ELSE Res(checked_sub(xlm_before_penalty.val, penalty.val), "Underflow")

\* BondingCurveV2::apply_buy: [ok, err, curve], the struct as the call leaves it.
apply_buy(c, xlm_spent, tokens_received) ==
    LET r1 == checked_add(c.circulating_supply, tokens_received) IN
    IF ~r1.ok THEN [ok |-> FALSE, err |-> "Overflow", curve |-> c]
    ELSE LET c1 == [c EXCEPT !.circulating_supply = r1.val]
             r2 == checked_add(c1.xlm_reserve, xlm_spent) IN
    IF ~r2.ok THEN [ok |-> FALSE, err |-> "Overflow", curve |-> c1]
    ELSE [ok |-> TRUE, err |-> "", curve |-> [c1 EXCEPT !.xlm_reserve = r2.val]]

\* BondingCurveV2::apply_sell
apply_sell(c, xlm_received, tokens_sold) ==
    LET r1 == checked_sub(c.circulating_supply, tokens_sold) IN
    IF ~r1.ok THEN [ok |-> FALSE, err |-> "Underflow", curve |-> c]
    ELSE LET c1 == [c EXCEPT !.circulating_supply = r1.val]
             r2 == checked_sub(c1.xlm_reserve, xlm_received) IN
    IF ~r2.ok THEN [ok |-> FALSE, err |-> "Underflow", curve |-> c1]
    ELSE [ok |-> TRUE, err |-> "", curve |-> [c1 EXCEPT !.xlm_reserve = r2.val]]

-----------------------------------------------------------------------------
(* BondingCurveV2: state machine of one curve, traded as the token factory *)
(* trades it (token-factory/src/lib.rs lines 197-212 and 279-297)          *)

MaxV2Ops == 4
V2Supply == 400
V2BuyAmounts == {0, 1, 20, 150}
V2SellAmounts(circulating) == {0, 1, circulating, circulating + 1}

V2Init ==
    /\ curve_v2 = new_linear(V2Supply)
    /\ v2_last = [op |-> "new_linear", ok |-> TRUE, err |-> "", x |-> 0, t |-> 0]
    /\ v2_ops = 0

\* A new curve, of one of the three shapes, takes the place of the value.
V2New ==
    /\ v2_ops < MaxV2Ops
    /\ \E c \in {new_linear(V2Supply), new_exponential(V2Supply), new_sigmoid(V2Supply)} :
          /\ curve_v2' = c
          /\ v2_last' = [op |-> "new", ok |-> TRUE, err |-> "", x |-> 0, t |-> 0]
    /\ v2_ops' = v2_ops + 1

\* calculate_buy_amount, then apply_buy with its result; the curve of a failed
\* call is not stored.
V2Buy ==
    /\ v2_ops < MaxV2Ops
    /\ \E xlm_amount \in V2BuyAmounts :
          LET calc == calculate_buy_amount(curve_v2, xlm_amount)
              exec == apply_buy(curve_v2, xlm_amount, calc.val) IN
          /\ curve_v2' = IF calc.ok /\ exec.ok THEN exec.curve ELSE curve_v2
          /\ v2_last' = [op |-> "buy", ok |-> calc.ok /\ exec.ok,
                         err |-> IF calc.ok THEN exec.err ELSE calc.err,
                         x |-> xlm_amount, t |-> calc.val]
    /\ v2_ops' = v2_ops + 1

\* The tokens the last call bought, if it was a successful buy.
V2JustBought == IF v2_last.op = "buy" /\ v2_last.ok THEN {v2_last.t} ELSE {}

\* calculate_sell_amount, the test of its result against the reserve, then
\* apply_sell.  `x` is what calculate_sell_amount returned, whatever follows.
V2Sell ==
    /\ v2_ops < MaxV2Ops
    /\ \E token_amount \in V2SellAmounts(curve_v2.circulating_supply) \cup V2JustBought :
          LET calc == calculate_sell_amount(curve_v2, token_amount)
              funded == calc.val <= curve_v2.xlm_reserve
              exec == apply_sell(curve_v2, calc.val, token_amount) IN
          /\ curve_v2' = IF calc.ok /\ funded /\ exec.ok THEN exec.curve ELSE curve_v2
          /\ v2_last' = [op |-> "sell", ok |-> calc.ok /\ funded /\ exec.ok,
                         err |-> IF ~calc.ok THEN calc.err
                                 ELSE IF ~funded THEN "InsufficientReserve" ELSE exec.err,
                         x |-> calc.val, t |-> token_amount]
    /\ v2_ops' = v2_ops + 1

V2Next ==
    (V2New \/ V2Buy \/ V2Sell)
        /\ UNCHANGED <<amm_vars, curve_vars, fac_vars, guard_vars, oracle_vars, math_vars>>

-----------------------------------------------------------------------------
(* Specifications *)

Init ==
    AmmInit /\ CurveInit /\ FacInit /\ GuardInit /\ OracleInit /\ MathInit /\ V2Init

SpecAmm == Init /\ [][AmmNext]_vars
SpecCurve == Init /\ [][CurveNext]_vars
SpecCurveRaw == Init /\ [][CurveRawNext]_vars
SpecFactory == Init /\ [][FacNext]_vars
SpecRoles == Init /\ [][RolesNext]_vars
SpecGuard == Init /\ [][GuardNext]_vars
SpecOracle == Init /\ [][OracleNext]_vars
SpecRing == Init /\ [][RingNext]_vars
SpecMath == Init /\ [][MathNext]_vars
SpecV2 == Init /\ [][V2Next]_vars

-----------------------------------------------------------------------------
(* BondingCurve: properties *)

\* C3: on a curve created by new and driven by buys and sells, tokens_sold +
\* tokens_remaining = total_supply, 0 <= tokens_sold <= total_supply,
\* tokens_remaining >= 0, and xlm_reserve is never below the virtual reserve
\* set at creation.
C3_SupplyConserved ==
    /\ curve.tokens_sold + curve.tokens_remaining = curve.total_supply
    /\ 0 <= curve.tokens_sold /\ curve.tokens_sold <= curve.total_supply
    /\ curve.tokens_remaining >= 0
    /\ curve.xlm_reserve >= INITIAL_XLM

\* A sell has succeeded after a buy, leaving tokens still sold.
C3_Witness ==
    /\ curve_last.op = "sell" /\ curve_last.ok
    /\ curve.tokens_sold > 0 /\ curve.xlm_reserve > INITIAL_XLM

\* C5: a call of execute_buy or execute_sell that returns an error leaves
\* xlm_reserve, tokens_remaining and tokens_sold as they were.
C5_FailedExecuteChangesNothing ==
    [][curve_last'.op \in {"execute_buy", "execute_sell"} /\ ~curve_last'.ok
         /\ curve_ops' = curve_ops + 1 =>
         /\ curve'.xlm_reserve = curve.xlm_reserve
         /\ curve'.tokens_remaining = curve.tokens_remaining
         /\ curve'.tokens_sold = curve.tokens_sold]_vars

-----------------------------------------------------------------------------
(* SacFactory: properties *)

Graduated(toks, t) == t \in DOMAIN toks /\ toks[t].status = "Graduated"

\* C4: graduation is terminal.  A Graduated token stays Graduated with its
\* curve state, xlm_raised and status unchanged by every later call, and a buy
\* or sell on it that passes the amount, deadline and pause checks fails with
\* AlreadyGraduated.
C4_GraduationTerminal ==
    [][\A t \in Tokens : Graduated(tokens, t) =>
          /\ t \in DOMAIN tokens' /\ tokens'[t] = tokens[t]
          /\ (fac_ops' = fac_ops + 1 /\ fac_last'.op \in {"buy", "sell"}
              /\ fac_last'.token = t
              /\ fac_last'.err \notin {"InvalidAmount", "TransactionExpired", "ContractPaused"})
             => (~fac_last'.ok /\ fac_last'.err = "AlreadyGraduated")]_vars

\* A buy on a graduated token has been refused with AlreadyGraduated.
C4_Witness ==
    /\ fac_last.op \in {"buy", "sell"} /\ fac_last.err = "AlreadyGraduated"
    /\ Graduated(tokens, fac_last.token)

-----------------------------------------------------------------------------
(* Reentrancy lock: properties *)

\* C6: the lock is held exactly while a guard is alive: is_locked is TRUE from a
\* successful ReentrancyGuard::new until that guard is dropped and FALSE once
\* the body has been left, whether by a return, an error return or an abort;
\* with no body in progress a new guard can be acquired.
C6_LockHeldForScope ==
    /\ lock = (frames # <<>>)
    /\ (frames = <<>>) => guard_new(lock).ok

\* Bodies have been left by an error return and by an abort, and the lock is free.
C6_Witness ==
    /\ frames = <<>> /\ ~lock
    /\ \E i, j \in 1 .. Len(guard_log) : guard_log[i] = "error" /\ guard_log[j] = "abort"

\* C7: while the lock is held a nested acquire is refused with "reentrancy
\* detected" (Reentrancy for check_reentrancy) and changes neither the lock nor
\* the holder, so at most one guarded body is in progress.
C7_NestedAcquireRefused ==
    /\ [](Len(frames) <= 1 /\ holders_v2 <= 1)
    /\ [][(lock /\ guard_log' # guard_log
           /\ guard_log'[Len(guard_log')] \in {"new", "reentrancy detected"})
          => (guard_log' = Append(guard_log, "reentrancy detected")
              /\ lock' /\ frames' = frames)]_vars
    /\ [][(lock_v2 /\ guard_log' # guard_log
           /\ guard_log'[Len(guard_log')] \in {"check", "Reentrancy"})
          => (guard_log' = Append(guard_log, "Reentrancy")
              /\ lock_v2' /\ holders_v2' = holders_v2)]_vars

\* A nested attempt was refused and the outer holder still holds the lock.
C7_Witness ==
    /\ Len(guard_log) >= 2
    /\ guard_log[Len(guard_log)] = "reentrancy detected"
    /\ lock /\ Len(frames) = 1

-----------------------------------------------------------------------------
(* Oracle: properties *)

Written(o) == {o.observations[i] : i \in {j \in Slots : o.observations[j].timestamp > 0}}

\* Those old enough for a window of seconds_ago.
OldEnough(o, seconds_ago) ==
    {ob \in Written(o) : ob.timestamp <= o.last_observation.timestamp - seconds_ago}

\* C9: get_twap(seconds_ago) returns an error whenever seconds_ago = 0 or no
\* observation written by update is as old as last_observation.timestamp -
\* seconds_ago.
C9_TwapFailsWithoutOldObservation ==
    oracle_last.op = "get_twap" =>
        ((oracle_last.arg = 0 \/ OldEnough(oracle, oracle_last.arg) = {}) => ~oracle_last.ok)

\* C10: when get_twap(seconds_ago) returns Ok, its value is the difference of
\* the cumulative prices of last_observation and of the youngest buffered
\* observation that is old enough, divided by the time between them; the
\* window is never shorter than seconds_ago.
C10_TwapOverOldEnoughWindow ==
    (oracle_last.op = "get_twap" /\ oracle_last.ok) =>
        \E ob \in OldEnough(oracle, oracle_last.arg) :
            /\ \A other \in OldEnough(oracle, oracle_last.arg) : other.timestamp <= ob.timestamp
            /\ oracle.last_observation.timestamp - ob.timestamp >= oracle_last.arg
            /\ oracle_last.val =
                   TruncDiv(oracle.last_observation.price_0_cumulative - ob.price_0_cumulative,
                            oracle.last_observation.timestamp - ob.timestamp)

-----------------------------------------------------------------------------
(* The pure functions: properties *)

\* C11: for positive amount_in, reserve_in and reserve_out and the default
\* fee, get_amount_out (when nothing overflows) returns out with 0 < out and
\* out * reserve_in < amount_in * reserve_out.
C11_AmountOutPositiveBelowRatio ==
    (math_last.fn = "get_amount_out" /\ math_last.ok) =>
        /\ 0 < math_last.val
        /\ math_last.val * math_last.args[2] < math_last.args[1] * math_last.args[3]

\* C12: for x > 0 and positive reserves, get_amount_in(get_amount_out(x))
\* succeeds (when nothing overflows) and is within 1 of x.
C12_RoundTripWithinOne ==
    (math_last.fn = "roundtrip" /\ math_last.err # "Overflow" /\ math_last.err2 # "Overflow") =>
        /\ math_last.ok /\ math_last.ok2
        /\ Abs(math_last.val2 - math_last.args[1]) <= 1

\* C13: for 0 < amount_out < reserve_out, reserve_in > 0 and a fee in
\* [0, 10000), get_amount_in fails only by overflow, and the input it returns
\* buys at least amount_out: get_amount_out of it, with the same fee, is
\* >= amount_out whenever it does not overflow.
C13_AmountInSufficient ==
    (math_last.fn = "get_amount_in" /\ math_last.args[1] < math_last.args[3]) =>
        /\ math_last.ok \/ math_last.err = "Overflow"
        /\ math_last.ok => (math_last.ok2 \/ math_last.err2 = "Overflow")
        /\ (math_last.ok /\ math_last.ok2) => math_last.val2 >= math_last.args[1]

\* The input returned buys exactly the requested output, at the default fee.
C13_Witness ==
    /\ math_last.fn = "get_amount_in" /\ math_last.ok /\ math_last.ok2
    /\ math_last.args[4] = DEFAULT_FEE_BPS /\ math_last.args[1] > 1
    /\ math_last.val2 = math_last.args[1]

\* C14: validate_k_invariant (when no product overflows) returns
\* KInvariantViolated whenever the product after is less than or equal to the
\* product before, and Ok only when it strictly increased.
C14_KMustStrictlyIncrease ==
    (math_last.fn = "validate_k_invariant" /\ math_last.err # "Overflow") =>
        LET k_before == math_last.args[1] * math_last.args[2]
            k_after == math_last.args[3] * math_last.args[4] IN
        /\ k_after <= k_before => (~math_last.ok /\ math_last.err = "KInvariantViolated")
        /\ math_last.ok => k_after > k_before

\* C15: sac-factory sqrt returns an error for y < 0 and, for y >= 0, the r
\* with r*r <= y < (r+1)*(r+1); math_v2::sqrt returns the same on every input.
C15_FloorSquareRoot ==
    math_last.fn = "sqrt" =>
        LET y == math_last.args[1]
            r == math_last.val IN
        /\ y < 0 => (~math_last.ok /\ ~math_last.ok2)
        /\ y >= 0 => /\ math_last.ok /\ r >= 0
                     /\ r * r <= y /\ y < (r + 1) * (r + 1)
                     /\ math_last.ok2 /\ math_last.val2 = r

\* The exact result of an operation is returned when it is representable,
\* the error `e` otherwise.
ExactOr(exact, e) ==
    IF InRange(exact) THEN math_last.ok /\ math_last.val = exact
    ELSE ~math_last.ok /\ math_last.err = e

\* safe_add, safe_sub, safe_mul and safe_div return the exact result when it is
\* representable and an error otherwise, never a wrapped value.
SafeOpsExact ==
    LET a == math_last.args[1]
        b == math_last.args[2] IN
    /\ math_last.fn = "safe_add" => ExactOr(a + b, "Overflow")
    /\ math_last.fn = "safe_sub" => ExactOr(a - b, "Underflow")
    /\ math_last.fn = "safe_mul" => ExactOr(a * b, "Overflow")
    /\ math_last.fn = "safe_div" =>
          IF b = 0 THEN ~math_last.ok /\ math_last.err = "DivisionByZero"
          ELSE ExactOr(TruncDiv(a, b), "Overflow")

\* C16 as stated: the safe operations are exact or fail; mul_div returns
\* Overflow when a*b is not representable, DivisionByZero when it is and c = 0,
\* and the quotient of the full product otherwise.
C16_SafeMathAsStated ==
    /\ SafeOpsExact
    /\ math_last.fn = "mul_div" =>
          LET product == math_last.args[1] * math_last.args[2]
              c == math_last.args[3] IN
          IF ~InRange(product) THEN ~math_last.ok /\ math_last.err = "Overflow"
          ELSE IF c = 0 THEN ~math_last.ok /\ math_last.err = "DivisionByZero"
          ELSE math_last.ok /\ math_last.val = TruncDiv(product, c)

\* C16: the safe operations are exact or fail; mul_div returns Overflow when
\* a*b is not representable, DivisionByZero when it is and c = 0, and otherwise
\* the quotient of the full product, or Overflow when that quotient is itself
\* not representable (the least value divided by -1).
C16_SafeMath ==
    /\ SafeOpsExact
    /\ math_last.fn = "mul_div" =>
          LET product == math_last.args[1] * math_last.args[2]
              c == math_last.args[3] IN
          IF ~InRange(product) THEN ~math_last.ok /\ math_last.err = "Overflow"
          ELSE IF c = 0 THEN ~math_last.ok /\ math_last.err = "DivisionByZero"
          ELSE ExactOr(TruncDiv(product, c), "Overflow")

\* mul_div has refused a product that does not fit although the quotient would.
C16_Witness ==
    /\ math_last.fn = "mul_div" /\ ~math_last.ok /\ math_last.err = "Overflow"
    /\ math_last.args = <<I128_MAX, 2, 2>>

\* C20: on positive reserves and a positive amount_in (when nothing
\* overflows), validate_price_impact with the default ceiling accepts a trade
\* of 1% of reserve_in and rejects one of 10% with PriceImpactTooHigh; it
\* returns PriceImpactTooHigh exactly when calculate_price_impact exceeds the
\* ceiling and fails for no other reason.
C20_PriceImpactCeiling ==
    (math_last.fn = "validate_price_impact" /\ math_last.args[1] > 0
     /\ math_last.err # "Overflow" /\ math_last.err2 # "Overflow") =>
        LET amount_in == math_last.args[1]
            reserve_in == math_last.args[2]
            ceiling == math_last.args[4] IN
        /\ (ceiling = MAX_PRICE_IMPACT_BPS /\ amount_in * 100 = reserve_in) => math_last.ok
        /\ (ceiling = MAX_PRICE_IMPACT_BPS /\ amount_in * 10 = reserve_in) =>
               (~math_last.ok /\ math_last.err = "PriceImpactTooHigh")
        /\ math_last.ok \/ math_last.err = "PriceImpactTooHigh"
        /\ math_last.ok2 /\ (math_last.err = "PriceImpactTooHigh" <=> math_last.val2 > ceiling)

-----------------------------------------------------------------------------
(* BondingCurve: properties of the reserve product *)

\* The reserve product is at most k, and short of it by less than the larger reserve.
WithinRounding(c) ==
    LET product == c.xlm_reserve * c.tokens_remaining IN
    /\ 0 <= c.k - product
    /\ c.k - product < (IF c.xlm_reserve > c.tokens_remaining
                        THEN c.xlm_reserve ELSE c.tokens_remaining)

\* C17: a buy or a sell never changes k, and after every successful buy or
\* sell 0 <= k - xlm_reserve * tokens_remaining < max(xlm_reserve,
\* tokens_remaining), however many buys and sells came before.
C17_ProductWithinRoundingOfK ==
    /\ [](WithinRounding(curve))
    /\ [][curve_last'.op \in {"buy", "sell"} => curve'.k = curve.k]_vars

\* A sell has succeeded after earlier trades, leaving the product below k.
C17_Witness ==
    /\ curve_last.op = "sell" /\ curve_last.ok /\ curve_ops >= 3
    /\ curve.k - curve.xlm_reserve * curve.tokens_remaining > 0

\* C18: when two consecutive buys of the same amount both succeed, the second
\* yields strictly fewer tokens than the first.
C18_SecondBuyYieldsFewer ==
    [][(curve_last.op = "buy" /\ curve_last.ok /\ curve_ops' = curve_ops + 1
        /\ curve_last'.op = "buy" /\ curve_last'.ok /\ curve_last'.x = curve_last.x)
       => curve_last'.t < curve_last.t]_vars

\* C19: a successful buy of x followed at once by a successful sell of exactly
\* the tokens received returns xlm_out with |xlm_out - x| <= x/100.
C19_BuySellRoundTrip ==
    [][(curve_last.op = "buy" /\ curve_last.ok /\ curve_ops' = curve_ops + 1
        /\ curve_last'.op = "sell" /\ curve_last'.ok /\ curve_last'.t = curve_last.t)
       => Abs(curve_last'.x - curve_last.x) <= curve_last.x \div 100]_vars

\* C30: the reserve product never exceeds k, and so a successful buy of x
\* followed at once by a successful sell of exactly the tokens received pays
\* out xlm_out <= x.
C30_RoundTripNotProfitable ==
    /\ [](curve.xlm_reserve * curve.tokens_remaining <= curve.k)
    /\ [][(curve_last.op = "buy" /\ curve_last.ok /\ curve_ops' = curve_ops + 1
           /\ curve_last'.op = "sell" /\ curve_last'.ok /\ curve_last'.t = curve_last.t)
          => curve_last'.x <= curve_last.x]_vars

\* The second call on a curve was a successful sell that returned every token
\* sold: the first call bought them, and the sell paid out for them.
C30_Witness ==
    /\ curve_last.op = "sell" /\ curve_last.ok /\ curve_last.x > 0
    /\ curve.tokens_sold = 0 /\ curve_ops = 2
    /\ curve.xlm_reserve >= INITIAL_XLM

-----------------------------------------------------------------------------
(* Oracle: properties of the ring buffer *)

\* The spot price update accumulates for reserves (num, den), computed exactly.
SpotPrice(reserve_num, reserve_den) ==
    IF reserve_den > 0 THEN TruncDiv(reserve_num * ORACLE_PRECISION, reserve_den) ELSE 0

\* The number of the last store into slot i among n stores (the j-th store goes
\* to slot (j - 1) % 8), or 0 when slot i has not been stored into.
LastStoreInto(i, n) ==
    IF n <= i THEN 0 ELSE n - ((n - 1 - i) % OBSERVATION_BUFFER_SIZE)

\* The buffer is the ring of the stores made so far.
RingOfObserved ==
    LET n == Len(observed)
        kept == IF n < OBSERVATION_BUFFER_SIZE THEN n ELSE OBSERVATION_BUFFER_SIZE IN
    /\ oracle.index \in Slots
    /\ oracle.index = n % OBSERVATION_BUFFER_SIZE
    /\ oracle.last_observation = IF n = 0 THEN empty_observation ELSE observed[n]
    /\ \A i \in Slots :
          oracle.observations[i] =
              IF LastStoreInto(i, n) = 0 THEN empty_observation
              ELSE observed[LastStoreInto(i, n)]
    /\ {oracle.observations[i] : i \in Slots} \ {empty_observation}
           = {observed[j] : j \in (n - kept + 1) .. n}
    /\ Cardinality({observed[j] : j \in (n - kept + 1) .. n}) = kept
    /\ \A j \in 1 .. (n - 1) :
          /\ observed[j].timestamp < observed[j + 1].timestamp
          /\ observed[j].price_0_cumulative <= observed[j + 1].price_0_cumulative
          /\ observed[j].price_1_cumulative <= observed[j + 1].price_1_cumulative

\* An update that succeeds at a timestamp later than the last observation's
\* stores one observation, at the old index.
StoresOne ==
    (oracle_last'.op = "update" /\ oracle_last'.ok /\ UNCHANGED oracle_now
     /\ oracle_now > oracle.last_observation.timestamp)
    => LET elapsed == oracle_now - oracle.last_observation.timestamp
           written == oracle'.observations[oracle.index] IN
       /\ \A i \in Slots \ {oracle.index} : oracle'.observations[i] = oracle.observations[i]
       /\ oracle'.index = (oracle.index + 1) % OBSERVATION_BUFFER_SIZE
       /\ oracle'.last_observation = written
       /\ written.timestamp = oracle_now
       /\ written.price_0_cumulative = oracle.last_observation.price_0_cumulative
              + SpotPrice(oracle_last'.reserve_1, oracle_last'.reserve_0) * elapsed
       /\ written.price_1_cumulative = oracle.last_observation.price_1_cumulative
              + SpotPrice(oracle_last'.reserve_0, oracle_last'.reserve_1) * elapsed
       /\ observed' = Append(observed, written)

\* C22: index stays in 0..7; each update that succeeds at a strictly later
\* timestamp writes exactly the slot at the old index, advances index by 1
\* modulo 8 and sets last_observation to the written observation, whose
\* cumulatives are the previous ones plus spot price times elapsed seconds;
\* timestamps of the stored observations strictly increase, cumulatives never
\* decrease, and after n stores the buffer holds exactly the min(n, 8) most
\* recent observations.
C22_RingBuffer == [](RingOfObserved) /\ [][StoresOne]_vars

\* A ninth observation has been stored: it has replaced the first, in slot 0.
C22_Witness ==
    /\ Len(observed) = OBSERVATION_BUFFER_SIZE + 1
    /\ oracle.index = 1
    /\ oracle.observations[0] = observed[OBSERVATION_BUFFER_SIZE + 1]
    /\ oracle.observations[0] # observed[1]

-----------------------------------------------------------------------------
(* SacFactory: properties of the roles *)

Owners(rs) == {a \in RoleAccounts : <<a, "Owner">> \in rs}

\* What a role call does, by its caller.
RoleCallAsStated ==
    fac_last'.op \in {"grant_role", "revoke_role", "transfer_ownership"} =>
        /\ fac_last'.caller \notin Owners(roles) =>
               (~fac_last'.ok /\ fac_last'.err = "Unauthorized" /\ roles' = roles)
        /\ (fac_last'.caller \in Owners(roles) /\ fac_last'.op = "revoke_role"
            /\ fac_last'.role = "Owner" /\ fac_last'.account = fac_last'.caller) =>
               (~fac_last'.ok /\ fac_last'.err = "CannotRevokeOwnOwnership" /\ roles' = roles)
        /\ (fac_last'.op = "transfer_ownership" /\ fac_last'.ok) =>
               fac_last'.account \in Owners(roles')

\* C29: after initialize, whatever grant_role, revoke_role and
\* transfer_ownership calls are made, some address holds the Owner role;
\* revoke_role refuses to revoke the caller's own ownership, a successful
\* transfer_ownership leaves the new owner holding the role, and a call by a
\* non-Owner fails with Unauthorized and changes no role.
C29_AlwaysAnOwner == [](Owners(roles) # {}) /\ [][RoleCallAsStated]_vars

\* The initial owner has lost the role: another owner, granted the role
\* earlier, has just revoked it.
C29_Witness ==
    /\ fac_last.op = "revoke_role" /\ fac_last.ok
    /\ fac_last.role = "Owner" /\ fac_last.account = "admin"
    /\ "admin" \notin Owners(roles)
    /\ Cardinality(Owners(roles)) = 1

-----------------------------------------------------------------------------
(* SacFactory: properties of the XLM accounts *)

\* C25: when a buy graduates a token, the XLM graduate_to_amm moves to the
\* pair is at most the XLM the factory holds for that token (paid in by its
\* buyers less paid out to its sellers); the virtual seed reserve is no part
\* of it.
C25_GraduationMovesOnlyHeldXlm ==
    [][\A t \in DOMAIN tokens :
          (tokens[t].status = "Bonding" /\ tokens'[t].status = "Graduated")
          => xlm_liquidity(tokens'[t]) <= xlm_held'[t]]_vars

\* The XLM account of a stored TokenInfo.
RaisedAsStated(info) ==
    /\ info.xlm_raised = info.bonding_curve.xlm_reserve - INITIAL_XLM
    /\ info.xlm_raised >= 0
    /\ info.status = "Bonding" <=> info.xlm_raised < GRADUATION_THRESHOLD

\* A buy that takes xlm_raised to the threshold stores the token as Graduated
\* or fails and stores nothing.
ReachingBuy ==
    (fac_last'.op = "buy" /\ fac_ops' = fac_ops + 1 /\ fac_last'.token \in DOMAIN tokens
     /\ tokens[fac_last'.token].status = "Bonding"
     /\ xlm_held'[fac_last'.token] - xlm_held[fac_last'.token]
            + tokens[fac_last'.token].xlm_raised >= GRADUATION_THRESHOLD)
    => \/ fac_last'.ok /\ tokens'[fac_last'.token].status = "Graduated"
       \/ ~fac_last'.ok /\ tokens' = tokens

\* C26: in every stored TokenInfo xlm_raised is xlm_reserve less the virtual
\* seed reserve and is never negative, and the status is Bonding exactly when
\* xlm_raised < GRADUATION_THRESHOLD; a buy that reaches the threshold stores
\* the token as Graduated or fails without storing anything.
C26_RaisedTracksReserve ==
    /\ [](\A t \in DOMAIN tokens : RaisedAsStated(tokens[t]))
    /\ [][ReachingBuy]_vars

\* A sell has just lowered the XLM raised of a token, which buys had raised
\* before and which stays Bonding.
C26_Witness ==
    /\ fac_last.op = "sell" /\ fac_last.ok
    /\ tokens[fac_last.token].status = "Bonding"
    /\ tokens[fac_last.token].xlm_raised > 0
    /\ tokens[fac_last.token].xlm_raised < xlm_held[fac_last.token]

-----------------------------------------------------------------------------
(* SacFactory: properties of the checks of buy and sell, and of the pause *)

CheckErrors == {"InvalidAmount", "TransactionExpired", "ContractPaused", "TokenNotFound",
                "AlreadyGraduated"}

\* The error of the first failing check, in the order amount validation,
\* deadline, contract Active, token exists, status Bonding; "" when all pass.
FirstFailingCheck(token, amount, minimum, deadline) ==
    IF amount <= 0 \/ minimum < 0 THEN "InvalidAmount"
    ELSE IF now > deadline THEN "TransactionExpired"
    ELSE IF fstate # "Active" THEN "ContractPaused"
    ELSE IF token \notin DOMAIN tokens THEN "TokenNotFound"
    ELSE IF tokens[token].status # "Bonding" THEN "AlreadyGraduated"
    ELSE ""

\* The result r of a call is the one the checks give.
AsChecked(r, token, amount, minimum, deadline) ==
    LET first == FirstFailingCheck(token, amount, minimum, deadline) IN
    /\ first # "" => (~r.ok /\ r.err = first /\ r.tokens = tokens)
    /\ first = "" => (r.ok \/ r.err \notin CheckErrors \ {"InvalidAmount"})
    /\ deadline = now => r.err # "TransactionExpired"

\* C23: in every state, whatever buy or sell is called, the error returned is
\* that of the first failing check in the order amount validation, deadline,
\* contract Active, token exists, status Bonding; a ledger time equal to the
\* deadline is not expired.
C23_ChecksInOrder ==
    \A token \in Tokens :
        /\ \A x \in BuyArgs(now) :
              AsChecked(buy(fstate, tokens, amm_wasm, token, x[1], x[2], now, x[3]),
                        token, x[1], x[2], x[3])
        /\ \A x \in SellArgs(now) :
              AsChecked(sell(fstate, tokens, token, x[1], x[2], now, x[3]),
                        token, x[1], x[2], x[3])

\* A buy or a sell of a token that was never launched, made while the contract
\* is paused, has failed on its amounts.
C23_Witness ==
    /\ fac_last.op \in {"buy", "sell"} /\ ~fac_last.ok
    /\ fac_last.err = "InvalidAmount"
    /\ fstate = "Paused"
    /\ fac_last.token \notin DOMAIN tokens

\* A call of launch_token, buy or sell made while the contract is paused.
PausedCall ==
    /\ fstate = "Paused" /\ fac_ops' = fac_ops + 1
    /\ fac_last'.op \in {"launch_token", "buy", "sell"}

\* pause and unpause as stated: pause when Paused and unpause when not Paused
\* fail and leave the state; a successful unpause yields Active.
PauseCallsAsStated ==
    /\ (fac_ops' = fac_ops + 1 /\ fac_last'.op = "pause" /\ fstate = "Paused")
           => (~fac_last'.ok /\ fstate' = fstate)
    /\ (fac_ops' = fac_ops + 1 /\ fac_last'.op = "unpause" /\ fstate # "Paused")
           => (~fac_last'.ok /\ fstate' = fstate)
    /\ (fac_ops' = fac_ops + 1 /\ fac_last'.op = "unpause" /\ fac_last'.ok)
           => fstate' = "Active"

\* C24 as stated: while the contract is Paused every launch_token, buy and
\* sell fails with ContractPaused and changes no stored token; pause when
\* Paused and unpause when not Paused fail and leave the state, and a
\* successful unpause yields Active.
C24_PausedAsStated ==
    [][/\ PausedCall => (~fac_last'.ok /\ fac_last'.err = "ContractPaused"
                         /\ tokens' = tokens)
       /\ PauseCallsAsStated]_vars

\* C24: while the contract is Paused every launch_token, buy and sell fails
\* and changes no stored token: launch_token with ContractPaused, buy and sell
\* with ContractPaused unless the amount validation or the deadline check,
\* which come first, fail with InvalidAmount or TransactionExpired; pause when
\* Paused and unpause when not Paused fail and leave the state, and a
\* successful unpause yields Active.
C24_PausedRefusesTrades ==
    [][/\ PausedCall =>
            /\ ~fac_last'.ok /\ tokens' = tokens /\ xlm_held' = xlm_held
            /\ fac_last'.op = "launch_token" => fac_last'.err = "ContractPaused"
            /\ fac_last'.err \in {"ContractPaused", "InvalidAmount", "TransactionExpired"}
       /\ PauseCallsAsStated]_vars

\* A buy of a launched token with valid amounts and deadline has been refused
\* because the contract is paused.
C24_Witness ==
    /\ fstate = "Paused"
    /\ fac_last.op = "buy" /\ ~fac_last.ok /\ fac_last.err = "ContractPaused"
    /\ fac_last.token \in DOMAIN tokens

-----------------------------------------------------------------------------
(* BondingCurveV2: properties *)

\* C21: on a BondingCurveV2 of any shape, after a buy of x that yields t
\* tokens, calculate_sell_amount(t) returns at most x.
C21_BuyThenSellExtractsNothing ==
    [][(v2_last.op = "buy" /\ v2_last.ok /\ v2_ops' = v2_ops + 1
        /\ v2_last'.op = "sell" /\ v2_last'.t = v2_last.t
        /\ v2_last'.err \in {"", "InsufficientReserve"})
       => v2_last'.x <= v2_last.x]_vars

-----------------------------------------------------------------------------
(* AMMPair: properties of the reserves and of liquidity provision *)

PositiveReserves(pi) == pi.reserve_0 >= 1 /\ pi.reserve_1 >= 1

\* A call of the pair has just succeeded.
AmmCallSucceeds == amm_ops' = amm_ops + 1 /\ amm_last'.ok

\* The output of a successful swap is below the reserve it is taken from.
SwapBelowReserve ==
    (AmmCallSucceeds /\ amm_last'.op = "swap") =>
        \/ pair'.reserve_1 = pair.reserve_1 - amm_last'.out /\ amm_last'.out < pair.reserve_1
        \/ pair'.reserve_0 = pair.reserve_0 - amm_last'.out /\ amm_last'.out < pair.reserve_0

\* A successful withdrawal of a positive amount leaves the locked share.
RemoveLeavesLocked ==
    (AmmCallSucceeds /\ amm_last'.op = "remove_liquidity" /\ amm_last'.liq > 0) =>
        /\ amm_last'.liq <= pair.total_supply - MINIMUM_LIQUIDITY
        /\ amm_last'.a0 < pair.reserve_0 /\ amm_last'.a1 < pair.reserve_1

\* C27: once liquidity has been added both reserves are at least 1 in every
\* state, and every successful call leaves them so; the output of a swap is
\* strictly less than the output reserve, and a withdrawal never takes the
\* share backed by the locked minimum liquidity.
C27_ReservesStayPositive ==
    /\ [](pair.total_supply # 0 => PositiveReserves(pair))
    /\ [][(AmmCallSucceeds => PositiveReserves(pair'))
           /\ SwapBelowReserve /\ RemoveLeavesLocked]_vars

\* Every LP holder has withdrawn everything after an uneven deposit: the
\* reserves left are those backing the locked share, both positive.
C27_Witness ==
    /\ amm_last.op = "remove_liquidity" /\ amm_last.ok /\ amm_last.liq > 0
    /\ SumBalances(balances) = 0
    /\ PositiveReserves(pair)
    /\ pair.reserve_0 # pair.reserve_1
    /\ amm_ops >= 3

\* The last call withdrew exactly the LP units that the call before it had
\* minted to the same sender.
AddThenRemove ==
    /\ deposited # NoDeposit
    /\ amm_last.op = "remove_liquidity" /\ amm_last.ok
    /\ amm_sender = deposited.sender
    /\ amm_last.liq = deposited.liq

\* C28: an add_liquidity that deposits (amount_0, amount_1) and mints L,
\* followed at once by remove_liquidity(L) of the same sender, pays out no
\* more than was deposited of either token, on the first deposit and later.
C28_AddThenRemoveExtractsNothing ==
    AddThenRemove => amm_last.a0 <= deposited.a0 /\ amm_last.a1 <= deposited.a1

\* A later deposit is withdrawn at once by its sender, who held LP units
\* before it, and the rounding pays out less than was deposited.
C28_Witness ==
    /\ AddThenRemove
    /\ balances[amm_sender] > 0
    /\ amm_last.a0 > 0 /\ amm_last.a0 < deposited.a0
    /\ amm_last.a1 > 0 /\ amm_last.a1 < deposited.a1

====
